---- MODULE Spec2Model ----
(***************************************************************************)
(* Pin-level model of the spinter emulator: the W65C02 micro-sequencer     *)
(* (steppers, executor, PHI2 wrapper), the HM62256B and W24512A RAM chips,  *)
(* and the threaded circuit harness (one thread and one bounded channel    *)
(* per component, one shared circuit channel drained by Machine::step).    *)
(*                                                                         *)
(* Specifications:                                                         *)
(*   SpecCpu   the CPU logic alone, driven as the unit tests of w65c02.rs  *)
(*             drive it (a stepper preset from get_stepper, or none),      *)
(*             with arbitrary levels delivered to its data pins.           *)
(*   SpecRam   the RAM chip alone under arbitrary pin deliveries.          *)
(*   Spec      the assembled Ben Eater machine under every interleaving of *)
(*             its threads, on a narrowed bus (see the bounds).            *)
(*   SpecQuiet the assembled machine at full bus width under the one       *)
(*             schedule in which every wave quiesces before the next step. *)
(*   SpecBurst the assembled machine when the first step is called before  *)
(*             the component threads drain their channels.                 *)
(*   SpecPins  the HM62256B fed single pin levels in every order.          *)
(*   SpecW24   the W24512A RAM chip fed single pin levels in every order.  *)
(*   SpecIsa   the CPU with steppers preset one after another, on a bus    *)
(*             whose memory stores what the CPU drives and presents the    *)
(*             addressed cell: instruction by instruction.                 *)
(*   SpecGraph the two linked pins of main-graph.rs (X1.out, U1.phi2)      *)
(*             under write, toggle and set_val.                            *)
(*   SpecFair  Spec with every thread scheduled again and again.           *)
(*   SpecRun   SpecQuiet as Machine::start loops over it, with a caller of *)
(*             Machine::stop beside it, fairly scheduled.                  *)
(*   SpecA15   the assembled machine with a stepper preset in the CPU,     *)
(*             accessing addresses with A15 high and their twins below.    *)
(*   SpecBus   the assembled machine storing a byte and fetching on.       *)
(***************************************************************************)
EXTENDS Integers, Sequences, FiniteSets, TLC

\* ------------------------------------------------------------------ bits

Pow2(n) == 2 ^ n

Bit(v, i) == (v \div Pow2(i)) % 2

BitSet(v, i) == Bit(v, i) = 1

B2N(b) == IF b THEN 1 ELSE 0

\* bool_to_bit(&val, n): the flag shifted to its place
bool_to_bit(val, n) == B2N(val) * Pow2(n)

RECURSIVE BitwiseN(_, _, _, _)
\* bitwise combination of two w-bit words; f is "and", "or" or "xor"
BitwiseN(a, b, f, w) ==
  IF w = 0 THEN 0
  ELSE LET x == a % 2
           y == b % 2
           z == CASE f = "and" -> x * y
                  [] f = "or"  -> IF x + y > 0 THEN 1 ELSE 0
                  [] OTHER     -> (x + y) % 2
       IN z + 2 * BitwiseN(a \div 2, b \div 2, f, w - 1)

And8(a, b) == BitwiseN(a, b, "and", 8)
Or8(a, b)  == BitwiseN(a, b, "or", 8)
Xor8(a, b) == BitwiseN(a, b, "xor", 8)
Not8(a)    == 255 - a

Lo(w) == w % 256
Hi(w) == (w \div 256) % 256
\* u16::from_le_bytes([lo, hi])
Word(lo, hi) == lo + 256 * hi
Add8(a, b)  == (a + b) % 256
Sub8(a, b)  == (a - b + 256) % 256
Add16(a, b) == (a + b) % 65536
\* `shift as i8`
AsI8(b) == IF b >= 128 THEN b - 256 ELSE b

\* --------------------------------------------------------- opcode table
\* opcode, mnemonic, address mode, base cycles of the documented 6502 set
OpTable ==
  {
    <<0, "BRK", "Implicit", 7>>, <<1, "ORA", "IndirectX", 6>>, <<5, "ORA", "ZeroPage", 3>>,
    <<6, "ASL", "ZeroPage", 5>>, <<8, "PHP", "Implicit", 3>>, <<9, "ORA", "Immediate", 2>>,
    <<10, "ASL", "Accumulator", 2>>, <<13, "ORA", "Absolute", 4>>, <<14, "ASL", "Absolute", 6>>,
    <<16, "BPL", "Relative", 2>>, <<17, "ORA", "IndirectY", 5>>, <<21, "ORA", "ZeroPageX", 4>>,
    <<22, "ASL", "ZeroPageX", 6>>, <<24, "CLC", "Implicit", 2>>, <<25, "ORA", "AbsoluteY", 4>>,
    <<29, "ORA", "AbsoluteX", 4>>, <<30, "ASL", "AbsoluteX", 7>>, <<32, "JSR", "Absolute", 6>>,
    <<33, "AND", "IndirectX", 6>>, <<36, "BIT", "ZeroPage", 3>>, <<37, "AND", "ZeroPage", 3>>,
    <<38, "ROL", "ZeroPage", 5>>, <<40, "PLP", "Implicit", 4>>, <<41, "AND", "Immediate", 2>>,
    <<42, "ROL", "Accumulator", 2>>, <<44, "BIT", "Absolute", 4>>, <<45, "AND", "Absolute", 4>>,
    <<46, "ROL", "Absolute", 6>>, <<48, "BMI", "Relative", 2>>, <<49, "AND", "IndirectY", 5>>,
    <<53, "AND", "ZeroPageX", 4>>, <<54, "ROL", "ZeroPageX", 6>>, <<56, "SEC", "Implicit", 2>>,
    <<57, "AND", "AbsoluteY", 4>>, <<61, "AND", "AbsoluteX", 4>>, <<62, "ROL", "AbsoluteX", 7>>,
    <<64, "RTI", "Implicit", 6>>, <<65, "EOR", "IndirectX", 6>>, <<69, "EOR", "ZeroPage", 3>>,
    <<70, "LSR", "ZeroPage", 5>>, <<72, "PHA", "Implicit", 3>>, <<73, "EOR", "Immediate", 2>>,
    <<74, "LSR", "Accumulator", 2>>, <<76, "JMP", "Absolute", 3>>, <<77, "EOR", "Absolute", 4>>,
    <<78, "LSR", "Absolute", 6>>, <<80, "BVC", "Relative", 2>>, <<81, "EOR", "IndirectY", 5>>,
    <<85, "EOR", "ZeroPageX", 4>>, <<86, "LSR", "ZeroPageX", 6>>, <<88, "CLI", "Implicit", 2>>,
    <<89, "EOR", "AbsoluteY", 4>>, <<93, "EOR", "AbsoluteX", 4>>, <<94, "LSR", "AbsoluteX", 7>>,
    <<96, "RTS", "Implicit", 6>>, <<97, "ADC", "IndirectX", 6>>, <<101, "ADC", "ZeroPage", 3>>,
    <<102, "ROR", "ZeroPage", 5>>, <<104, "PLA", "Implicit", 4>>, <<105, "ADC", "Immediate", 2>>,
    <<106, "ROR", "Accumulator", 2>>, <<108, "JMP", "Indirect", 5>>, <<109, "ADC", "Absolute", 4>>,
    <<110, "ROR", "Absolute", 6>>, <<112, "BVS", "Relative", 2>>, <<113, "ADC", "IndirectY", 5>>,
    <<117, "ADC", "ZeroPageX", 4>>, <<118, "ROR", "ZeroPageX", 6>>, <<120, "SEI", "Implicit", 2>>,
    <<121, "ADC", "AbsoluteY", 4>>, <<125, "ADC", "AbsoluteX", 4>>, <<126, "ROR", "AbsoluteX", 7>>,
    <<129, "STA", "IndirectX", 6>>, <<132, "STY", "ZeroPage", 3>>, <<133, "STA", "ZeroPage", 3>>,
    <<134, "STX", "ZeroPage", 3>>, <<136, "DEY", "Implicit", 2>>, <<138, "TXA", "Implicit", 2>>,
    <<140, "STY", "Absolute", 4>>, <<141, "STA", "Absolute", 4>>, <<142, "STX", "Absolute", 4>>,
    <<144, "BCC", "Relative", 2>>, <<145, "STA", "IndirectY", 6>>, <<148, "STY", "ZeroPageX", 4>>,
    <<149, "STA", "ZeroPageX", 4>>, <<150, "STX", "ZeroPageY", 4>>, <<152, "TYA", "Implicit", 2>>,
    <<153, "STA", "AbsoluteY", 5>>, <<154, "TXS", "Implicit", 2>>, <<157, "STA", "AbsoluteX", 5>>,
    <<160, "LDY", "Immediate", 2>>, <<161, "LDA", "IndirectX", 6>>, <<162, "LDX", "Immediate", 2>>,
    <<164, "LDY", "ZeroPage", 3>>, <<165, "LDA", "ZeroPage", 3>>, <<166, "LDX", "ZeroPage", 3>>,
    <<168, "TAY", "Implicit", 2>>, <<169, "LDA", "Immediate", 2>>, <<170, "TAX", "Implicit", 2>>,
    <<172, "LDY", "Absolute", 4>>, <<173, "LDA", "Absolute", 4>>, <<174, "LDX", "Absolute", 4>>,
    <<176, "BCS", "Relative", 2>>, <<177, "LDA", "IndirectY", 5>>, <<180, "LDY", "ZeroPageX", 4>>,
    <<181, "LDA", "ZeroPageX", 4>>, <<182, "LDX", "ZeroPageY", 4>>, <<184, "CLV", "Implicit", 2>>,
    <<185, "LDA", "AbsoluteY", 4>>, <<186, "TSX", "Implicit", 2>>, <<188, "LDY", "AbsoluteX", 4>>,
    <<189, "LDA", "AbsoluteX", 4>>, <<190, "LDX", "AbsoluteY", 4>>, <<192, "CPY", "Immediate", 2>>,
    <<193, "CMP", "IndirectX", 6>>, <<196, "CPY", "ZeroPage", 3>>, <<197, "CMP", "ZeroPage", 3>>,
    <<198, "DEC", "ZeroPage", 5>>, <<200, "INY", "Implicit", 2>>, <<201, "CMP", "Immediate", 2>>,
    <<202, "DEX", "Implicit", 2>>, <<204, "CPY", "Absolute", 4>>, <<205, "CMP", "Absolute", 4>>,
    <<206, "DEC", "Absolute", 6>>, <<208, "BNE", "Relative", 2>>, <<209, "CMP", "IndirectY", 5>>,
    <<213, "CMP", "ZeroPageX", 4>>, <<214, "DEC", "ZeroPageX", 6>>, <<216, "CLD", "Implicit", 2>>,
    <<217, "CMP", "AbsoluteY", 4>>, <<221, "CMP", "AbsoluteX", 4>>, <<222, "DEC", "AbsoluteX", 7>>,
    <<224, "CPX", "Immediate", 2>>, <<225, "SBC", "IndirectX", 6>>, <<228, "CPX", "ZeroPage", 3>>,
    <<229, "SBC", "ZeroPage", 3>>, <<230, "INC", "ZeroPage", 5>>, <<232, "INX", "Implicit", 2>>,
    <<233, "SBC", "Immediate", 2>>, <<234, "NOP", "Implicit", 2>>, <<236, "CPX", "Absolute", 4>>,
    <<237, "SBC", "Absolute", 4>>, <<238, "INC", "Absolute", 6>>, <<240, "BEQ", "Relative", 2>>,
    <<241, "SBC", "IndirectY", 5>>, <<245, "SBC", "ZeroPageX", 4>>, <<246, "INC", "ZeroPageX", 6>>,
    <<248, "SED", "Implicit", 2>>, <<249, "SBC", "AbsoluteY", 4>>, <<253, "SBC", "AbsoluteX", 4>>,
    <<254, "INC", "AbsoluteX", 7>>
  }

OpCodes == { t[1] : t \in OpTable }

\* an OperationDef; steppers hold a clone of the one they run
OperationDef(t) ==
  [opcode |-> t[1], mnemonic |-> t[2], address_mode |-> t[3], cycles |-> t[4]]

OPERATIONS == [ o \in OpCodes |-> OperationDef(CHOOSE u \in OpTable : u[1] = o) ]

\* the operation slot of a CPU that holds no instruction stepper
NoOperation == [opcode |-> 0, mnemonic |-> "", address_mode |-> "", cycles |-> 0]

Mnemonic(o) == OPERATIONS[o].mnemonic
AddressMode(o) == OPERATIONS[o].address_mode
Cycles(o) == OPERATIONS[o].cycles

\* the executor tag of a mnemonic (OperationDef.fn_name)
fn_name(m) ==
  CASE m \in {"ADC", "SBC"} -> "op_arithmetic"
    [] m \in {"AND", "ORA", "EOR"} -> "op_bitwise"
    [] m \in {"ASL", "LSR"} -> "op_shift"
    [] m \in {"ROL", "ROR"} -> "op_rotate"
    [] m = "BIT" -> "op_bit"
    [] m \in {"BCC", "BCS", "BNE", "BEQ", "BPL", "BMI", "BVC", "BVS"} -> "op_branch"
    [] m = "BRK" -> "op_brk"
    [] m \in {"CMP", "CPX", "CPY"} -> "op_compare"
    [] m \in {"CLC", "SEC", "CLI", "SEI", "CLD", "SED", "CLV"} -> "op_flag"
    [] m \in {"INC", "DEC"} -> "op_incdec_mem"
    [] m \in {"INX", "INY", "DEX", "DEY"} -> "op_incdec_reg"
    [] m = "JMP" -> "op_jmp"
    [] m = "JSR" -> "op_jsr"
    [] m \in {"LDA", "LDX", "LDY"} -> "op_load"
    [] m = "NOP" -> "op_nop"
    [] m = "PLA" -> "op_pla"
    [] m = "PLP" -> "op_plp"
    [] m \in {"PHA", "PHP"} -> "op_push"
    [] m = "RTI" -> "op_rti"
    [] m = "RTS" -> "op_rts"
    [] m \in {"STA", "STX", "STY"} -> "op_store"
    [] OTHER -> "op_transfer"

\* OperationDef::operand_len: the bytes that follow the opcode
operand_len(o) ==
  CASE o.address_mode \in {"Implicit", "Accumulator"} -> 0
    [] o.address_mode \in {"Absolute", "AbsoluteX", "AbsoluteY", "Indirect"} -> 2
    [] OTHER -> 1

\* ------------------------------------------------------------- CpuState
\* Registers::default and the pins of a fresh W65C02 (all levels low,
\* the data port reading)
Registers_default ==
  [ir |-> 0, a |-> 0, x |-> 0, y |-> 0, pc |-> 0, sp |-> 250, p |-> 32]

W65C02_new ==
  [reg |-> Registers_default,
   sync |-> FALSE, rw |-> FALSE, addr |-> 0, d |-> 0, ddir |-> "Input",
   phi2 |-> FALSE, phi1o |-> FALSE, phi2o |-> FALSE,
   st |-> "none", op |-> NoOperation, pos |-> "0",
   lo |-> 0, hi |-> 0, nlo |-> 0, nhi |-> 0, val |-> 0, crossed |-> FALSE,
   cycles |-> 0,
   \* has_opcode of the last StepperResult returned (tick drops the result)
   has |-> FALSE]

SetReg(c, r, v) == [c EXCEPT !.reg[r] = v]

inc_pc(c) == SetReg(c, "pc", Add16(c.reg.pc, 1))
pcl(c) == Lo(c.reg.pc)
pch(c) == Hi(c.reg.pc)
set_pc(c, v) == SetReg(c, "pc", v)
set_pcl(c, v) == set_pc(c, (c.reg.pc - Lo(c.reg.pc)) + v)
set_pch(c, v) == set_pc(c, Lo(c.reg.pc) + 256 * v)
set_a(c, v) == SetReg(c, "a", v)
set_x(c, v) == SetReg(c, "x", v)
set_y(c, v) == SetReg(c, "y", v)
set_sp(c, v) == SetReg(c, "sp", v)
set_ir(c, v) == SetReg(c, "ir", v)
\* dec_sp with saturating_sub in place of wrapping_sub
dec_sp_saturating(c) ==
  SetReg(c, "sp", IF c.reg.sp = 0 THEN 0 ELSE c.reg.sp - 1)

dec_sp(c) == SetReg(c, "sp", Sub8(c.reg.sp, 1))
inc_sp(c) == SetReg(c, "sp", Add8(c.reg.sp, 1))

\* set_carry with a mask that clears Z as well
set_carry_wide(c, val) ==
  SetReg(c, "p", Or8(And8(c.reg.p, 252), bool_to_bit(val, 0)))

\* set_p without the `| 0b0010_0000`
set_p_unmasked(c, v) == SetReg(c, "p", v)

set_p(c, v) == SetReg(c, "p", Or8(v, 32))

carry(c) == BitSet(c.reg.p, 0)
zero_flag(c) == BitSet(c.reg.p, 1)
interrupt_disable(c) == BitSet(c.reg.p, 2)
decimal_mode(c) == BitSet(c.reg.p, 3)
break_command(c) == BitSet(c.reg.p, 4)
overflow_flag(c) == BitSet(c.reg.p, 6)
negative(c) == BitSet(c.reg.p, 7)

\* p & mask | bool_to_bit(val, n), the mask clearing bit n alone
SetFlagBit(c, n, val) ==
  SetReg(c, "p", Or8(And8(c.reg.p, 255 - Pow2(n)), bool_to_bit(val, n)))

set_negative(c, val) == SetFlagBit(c, 7, val)
set_zero(c, val) == SetFlagBit(c, 1, val)
set_carry(c, val) == SetFlagBit(c, 0, val)
set_overflow(c, val) == SetFlagBit(c, 6, val)
set_interrupt_disable(c, val) == SetFlagBit(c, 2, val)
set_decimal_mode(c, val) == SetFlagBit(c, 3, val)
set_break_command(c, val) == SetFlagBit(c, 4, val)

\* ------------------------------------------------------------- executor

neg(val) == And8(val, 128) > 0
zero(val) == val = 0
\* overflow with `|` between the two differences
overflow_either(in1, in2, result) ==
  And8(Or8(Xor8(in1, result), Xor8(in2, result)), 128) > 0

overflow(in1, in2, result) ==
  And8(And8(Xor8(in1, result), Xor8(in2, result)), 128) > 0

set_nz_flags(val, c) == set_zero(set_negative(c, neg(val)), zero(val))

\* an executor's outcome: the CPU after it, and the byte it returns
Res(c, v) == [c |-> c, res |-> v, panic |-> FALSE]
Panic(c) == [c |-> c, res |-> 0, panic |-> TRUE]

op_arithmetic(c, o, val) ==
  LET a == c.reg.a
      v == IF o.mnemonic = "ADC" THEN val ELSE Not8(val)
      sum == a + B2N(carry(c)) + v
      res == sum % 256
      c1 == set_a(c, res)
      c2 == set_negative(c1, neg(res))
      c3 == set_zero(c2, zero(res))
      c4 == set_carry(c3, sum > 255)
      c5 == set_overflow(c4, overflow(a, v, res))
  IN Res(c5, res)

op_bit(c, o, val) ==
  LET c1 == set_negative(c, neg(val))
      c2 == set_zero(c1, zero(And8(val, c.reg.a)))
      c3 == set_overflow(c2, And8(val, 64) > 0)
  IN Res(c3, val)

op_branch(c, o, val) ==
  LET m == o.mnemonic
      branch == CASE m = "BCC" -> ~carry(c)
                  [] m = "BCS" -> carry(c)
                  [] m = "BNE" -> ~zero_flag(c)
                  [] m = "BEQ" -> zero_flag(c)
                  [] m = "BPL" -> ~negative(c)
                  [] m = "BMI" -> negative(c)
                  [] m = "BVC" -> ~overflow_flag(c)
                  [] OTHER     -> overflow_flag(c)
  IN Res(c, B2N(branch))

op_compare(c, o, val) ==
  LET m == o.mnemonic
      r == CASE m = "CMP" -> c.reg.a [] m = "CPX" -> c.reg.x [] OTHER -> c.reg.y
      diff == Sub8(r, val)
      c1 == set_negative(c, neg(diff))
      c2 == set_zero(c1, r = val)
      c3 == set_carry(c2, r >= val)
  IN Res(c3, diff)

op_bitwise(c, o, val) ==
  LET m == o.mnemonic
      a == CASE m = "AND" -> And8(c.reg.a, val)
             [] m = "ORA" -> Or8(c.reg.a, val)
             [] OTHER     -> Xor8(c.reg.a, val)
  IN Res(set_nz_flags(a, set_a(c, a)), a)

op_flag(c, o, val) ==
  LET m == o.mnemonic
  IN Res(CASE m = "CLC" -> set_carry(c, FALSE)
           [] m = "SEC" -> set_carry(c, TRUE)
           [] m = "CLI" -> set_interrupt_disable(c, FALSE)
           [] m = "SEI" -> set_interrupt_disable(c, TRUE)
           [] m = "CLD" -> set_decimal_mode(c, FALSE)
           [] m = "SED" -> set_decimal_mode(c, TRUE)
           [] OTHER     -> set_overflow(c, FALSE), 0)

op_load(c, o, val) ==
  LET m == o.mnemonic
      c1 == CASE m = "LDA" -> set_a(c, val)
              [] m = "LDX" -> set_x(c, val)
              [] OTHER     -> set_y(c, val)
  IN Res(set_nz_flags(val, c1), val)

op_store(c, o, val) ==
  LET m == o.mnemonic
  IN Res(c, CASE m = "STA" -> c.reg.a [] m = "STX" -> c.reg.x [] OTHER -> c.reg.y)

op_transfer(c, o, val) ==
  LET m == o.mnemonic
      c1 == CASE m = "TAX" -> set_x(c, c.reg.a)
              [] m = "TAY" -> set_y(c, c.reg.a)
              [] m = "TXA" -> set_a(c, c.reg.x)
              [] m = "TYA" -> set_a(c, c.reg.y)
              [] m = "TXS" -> set_sp(c, c.reg.x)
              [] OTHER     -> set_x(c, c.reg.sp)
  IN Res(IF m # "TXS" THEN set_nz_flags(c1.reg.a, c1) ELSE c1, 0)

\* the match on op.fn_name; any other tag panics
execute_operation(c, o, val) ==
  LET f == fn_name(o.mnemonic)
  IN CASE f = "op_arithmetic" -> op_arithmetic(c, o, val)
       [] f = "op_bit"        -> op_bit(c, o, val)
       [] f = "op_bitwise"    -> op_bitwise(c, o, val)
       [] f = "op_branch"     -> op_branch(c, o, val)
       [] f = "op_compare"    -> op_compare(c, o, val)
       [] f = "op_flag"       -> op_flag(c, o, val)
       [] f = "op_load"       -> op_load(c, o, val)
       [] f = "op_store"      -> op_store(c, o, val)
       [] f = "op_transfer"   -> op_transfer(c, o, val)
       [] OTHER               -> Panic(c)

\* ------------------------------------------------------ CPU pins, ports
\* A port write is the sequence of pin writes it makes; each is recorded as
\* <<port, word>> and expanded per linked pin by the circuit (PortMsgs).

\* W65C02_Pins::set_data_direction: the data port's direction, and RW
\* driven high for a read, low for a write
set_data_direction(c, dir) ==
  [c |-> [c EXCEPT !.ddir = dir, !.rw = (dir = "Input")],
   w |-> << <<"RW", B2N(dir = "Input")>> >>]

\* pins.addr.write(a)
addr_write(c, a) == [c |-> [c EXCEPT !.addr = a], w |-> << <<"A", a>> >>]

\* pins.data.write(v): drives only while the port is an output
data_write(c, v) ==
  IF c.ddir = "Output"
  THEN [c |-> [c EXCEPT !.d = v], w |-> << <<"D", v>> >>]
  ELSE [c |-> c, w |-> << >>]

\* pins.data.read()
data_read(c) == c.d

set_sync(c, v) == [c EXCEPT !.sync = v]

request_read_from_addr(c, lo, hi) ==
  LET r1 == set_data_direction(c, "Input")
      r2 == addr_write(r1.c, Word(lo, hi))
  IN [c |-> r2.c, w |-> r1.w \o r2.w]

request_read_from_pc(c) == request_read_from_addr(c, pcl(c), pch(c))

request_write_to_addr(c, lo, hi) ==
  LET r1 == set_data_direction(c, "Output")
      r2 == addr_write(r1.c, Word(lo, hi))
  IN [c |-> r2.c, w |-> r1.w \o r2.w]

request_opcode(c) == request_read_from_pc(set_sync(c, TRUE))

read_opcode_and_inc_pc(c) ==
  set_sync(set_ir(inc_pc(c), data_read(c)), FALSE)

\* -------------------------------------------------------------- steppers
\* A coroutine is the pair (st, pos): which stepper, and the suspension
\* point it will continue from.  One resume runs to the next suspend
\* (Yield), to the coroutine's end (Return), or to a panic.

Yield(c, p, w) ==
  [c |-> [c EXCEPT !.pos = p], w |-> w, ret |-> FALSE, has_opcode |-> FALSE]
Return(c, has) ==
  [c |-> c, w |-> << >>, ret |-> TRUE, has_opcode |-> has]
Panicked(c, w) ==
  [c |-> [c EXCEPT !.st = "panic"], w |-> w, ret |-> FALSE,
   has_opcode |-> FALSE]
YieldReq(r, p) == Yield(r.c, p, r.w)

\* continue with k unless the executor panicked
AfterExec(e, p) == IF e.panic THEN Panicked(e.c, << >>) ELSE Yield(e.c, p, << >>)

read_opcode(c) ==
  CASE c.pos = "0" -> YieldReq(request_opcode(c), "1")
    [] c.pos = "1" -> Yield(read_opcode_and_inc_pc(c), "2", << >>)
    [] OTHER       -> Return(c, TRUE)

init_stepper(c) ==
  CASE c.pos = "0" -> YieldReq(request_read_from_addr(c, 252, 255), "1")
    [] c.pos = "1" -> Yield([c EXCEPT !.lo = data_read(c)], "2", << >>)
    [] c.pos = "2" ->
         YieldReq(request_read_from_addr(set_pcl(c, c.lo), 253, 255), "3")
    [] c.pos = "3" -> Yield([c EXCEPT !.hi = data_read(c)], "4", << >>)
    [] c.pos = "4" -> Yield(set_pch(c, c.hi), "5", << >>)
    [] OTHER       -> Return(c, FALSE)

compensate(c) ==
  CASE c.pos = "0" -> Yield(c, "1", << >>)
    [] c.pos = "1" -> Yield(c, "2", << >>)
    [] OTHER       -> Return(c, FALSE)

\* `if op.address_mode == Accumulator { cpu.set_a(res) }`, then suspend
AfterExecAcc(e, am, p) ==
  AfterExec(IF am = "Accumulator" THEN [e EXCEPT !.c = set_a(e.c, e.res)]
            ELSE e, p)

no_mem_stepper(c) ==
  CASE c.pos = "0" -> YieldReq(request_read_from_pc(c), "1")
    [] c.pos = "1" ->
         LET am == c.op.address_mode
             val == CASE am = "Accumulator" -> c.reg.a
                      [] am = "Immediate"   -> data_read(c)
                      [] OTHER              -> 0
         IN AfterExecAcc(
              execute_operation(IF am = "Immediate" THEN inc_pc(c) ELSE c,
                                c.op, val), am, "2")
    [] OTHER       -> Return(c, FALSE)

\* the branch decision e, and the move to the target's low byte
BranchDecided(c, e) ==
  LET target == (Add16(c.reg.pc, operand_len(c.op)) + AsI8(c.val)
                 + 65536) % 65536
  IN IF e.panic THEN Panicked(c, << >>)
     ELSE IF e.res = 0 THEN Return(inc_pc(c), FALSE)
     ELSE Yield(set_pcl([c EXCEPT !.hi = Hi(target)], Lo(target)), "3", << >>)

branch_stepper(c) ==
  CASE c.pos = "0" -> YieldReq(request_read_from_pc(c), "1")
    [] c.pos = "1" -> Yield([c EXCEPT !.val = data_read(c)], "2", << >>)
    [] c.pos = "2" -> BranchDecided(c, execute_operation(c, c.op, c.val))
    [] c.pos = "3" -> YieldReq(request_opcode(c), "4")
    [] c.pos = "4" ->
         IF pch(c) = c.hi
         THEN Yield(read_opcode_and_inc_pc(c), "5", << >>)
         ELSE Yield(set_pch(c, c.hi), "6", << >>)
    [] c.pos = "5" -> Return(c, TRUE)
    [] OTHER       -> Return(c, FALSE)

jmp_stepper(c) ==
  LET indirect == c.op.address_mode = "Indirect"
  IN CASE c.pos = "0" -> YieldReq(request_read_from_pc(c), "1")
       [] c.pos = "1" ->
            Yield(inc_pc([c EXCEPT !.lo = data_read(c)]), "2", << >>)
       [] c.pos = "2" -> YieldReq(request_read_from_pc(c), "3")
       [] c.pos = "3" ->
            LET c1 == [c EXCEPT !.hi = data_read(c)]
            IN Yield(IF indirect THEN inc_pc(c1)
                     ELSE set_pc(c1, Word(c1.lo, c1.hi)), "4", << >>)
       [] c.pos = "4" ->
            IF indirect
            THEN YieldReq(request_read_from_addr(c, c.lo, c.hi), "5")
            ELSE Return(c, FALSE)
       [] c.pos = "5" -> Yield([c EXCEPT !.nlo = data_read(c)], "6", << >>)
       [] c.pos = "6" ->
            YieldReq(request_read_from_addr(c, Add8(c.lo, 1), c.hi), "7")
       [] c.pos = "7" ->
            Yield(set_pc(c, Word(c.nlo, data_read(c))), "8", << >>)
       [] OTHER       -> Return(c, FALSE)

jsr_stepper(c) ==
  CASE c.pos = "0" -> YieldReq(request_read_from_pc(c), "1")
    [] c.pos = "1" -> Yield(inc_pc([c EXCEPT !.lo = data_read(c)]), "2", << >>)
    [] c.pos = "2" -> YieldReq(request_write_to_addr(c, c.reg.sp, 1), "3")
    [] c.pos = "3" ->
         LET r == data_write(c, pch(c)) IN Yield(dec_sp(r.c), "4", r.w)
    [] c.pos = "4" -> YieldReq(request_write_to_addr(c, c.reg.sp, 1), "5")
    [] c.pos = "5" ->
         LET r == data_write(c, pcl(c)) IN Yield(dec_sp(r.c), "6", r.w)
    [] c.pos = "6" -> YieldReq(request_read_from_pc(c), "7")
    [] c.pos = "7" ->
         Yield(set_pch(set_pcl(c, c.lo), data_read(c)), "8", << >>)
    [] OTHER       -> Return(c, FALSE)

\* the value e to push, and the write request for the stack cell
PushRequest(c, e) ==
  LET r == request_write_to_addr(e.c, e.c.reg.sp, 1)
  IN IF e.panic THEN Panicked(c, << >>)
     ELSE Yield([r.c EXCEPT !.val = e.res], "3", r.w)

push_stepper(c) ==
  CASE c.pos = "0" -> YieldReq(request_read_from_pc(c), "1")
    [] c.pos = "1" -> Yield(c, "2", << >>)
    [] c.pos = "2" -> PushRequest(c, execute_operation(c, c.op, 0))
    [] c.pos = "3" ->
         LET r == data_write(c, c.val) IN Yield(dec_sp(r.c), "4", r.w)
    [] OTHER       -> Return(c, FALSE)

pull_stepper(c) ==
  CASE c.pos = "0" -> YieldReq(request_read_from_pc(c), "1")
    [] c.pos = "1" -> Yield(c, "2", << >>)
    [] c.pos = "2" -> Yield(inc_sp(c), "3", << >>)
    [] c.pos = "3" -> YieldReq(request_read_from_addr(c, c.reg.sp, 1), "4")
    [] c.pos = "4" -> AfterExec(execute_operation(c, c.op, data_read(c)), "5")
    [] OTHER       -> Return(c, FALSE)

rts_rti_stepper(c) ==
  LET m == c.op.mnemonic
  IN CASE c.pos = "0" -> YieldReq(request_read_from_pc(c), "1")
       [] c.pos = "1" -> Yield(c, "2", << >>)
       [] c.pos = "2" -> Yield(inc_sp(c), "3", << >>)
       [] c.pos = "3" ->
            YieldReq(request_read_from_addr(c, c.reg.sp, 1),
                     IF m = "RTI" THEN "r1" ELSE "4")
       [] c.pos = "r1" -> Yield(inc_sp(set_p(c, data_read(c))), "r2", << >>)
       [] c.pos = "r2" ->
            YieldReq(request_read_from_addr(c, c.reg.sp, 1), "4")
       [] c.pos = "4" ->
            Yield(inc_sp([c EXCEPT !.lo = data_read(c)]), "5", << >>)
       [] c.pos = "5" -> YieldReq(request_read_from_addr(c, c.reg.sp, 1), "6")
       [] c.pos = "6" -> Yield([c EXCEPT !.hi = data_read(c)], "7", << >>)
       [] c.pos = "7" ->
            LET c1 == set_pch(set_pcl(c, c.lo), c.hi)
            IN Yield(IF m = "RTS" THEN inc_pc(c1) ELSE c1, "8", << >>)
       [] OTHER        -> Return(c, FALSE)

\* the part of read_, write_ and rmw_stepper after decode_address!
read_body(c) ==
  CASE c.pos = "b0" -> YieldReq(request_read_from_addr(c, c.nlo, c.nhi), "b1")
    [] c.pos = "b1" -> AfterExec(execute_operation(c, c.op, data_read(c)), "b2")
    [] OTHER        -> Return(c, FALSE)

\* `cpu.pins.data.write(val)` with the executor's result e
WriteResult(c, e) ==
  LET r == data_write(e.c, e.res)
  IN IF e.panic THEN Panicked(c, << >>) ELSE Yield(r.c, "b2", r.w)

write_body(c) ==
  CASE c.pos = "b0" -> YieldReq(request_write_to_addr(c, c.nlo, c.nhi), "b1")
    [] c.pos = "b1" -> WriteResult(c, execute_operation(c, c.op, 0))
    [] OTHER        -> Return(c, FALSE)

\* the old value written back (r), then the operation's result e kept
RmwModified(r, e) ==
  IF e.panic THEN Panicked(r.c, r.w)
  ELSE Yield([e.c EXCEPT !.val = e.res], "b4", r.w)

rmw_body(c) ==
  CASE c.pos = "b0" -> YieldReq(request_read_from_addr(c, c.nlo, c.nhi), "b1")
    [] c.pos = "b1" -> Yield([c EXCEPT !.val = data_read(c)], "b2", << >>)
    [] c.pos = "b2" -> YieldReq(request_write_to_addr(c, c.nlo, c.nhi), "b3")
    [] c.pos = "b3" ->
         RmwModified(data_write(c, c.val),
                     execute_operation(data_write(c, c.val).c, c.op, c.val))
    [] c.pos = "b4" -> YieldReq(request_write_to_addr(c, c.nlo, c.nhi), "b5")
    [] c.pos = "b5" -> LET r == data_write(c, c.val) IN Yield(r.c, "b6", r.w)
    [] OTHER        -> Return(c, FALSE)

Body(c) ==
  CASE c.st = "read"  -> read_body(c)
    [] c.st = "write" -> write_body(c)
    [] OTHER          -> rmw_body(c)

\* decode_address! leaves (new_lo, new_hi) in nlo, nhi and runs on into
\* the body without suspending: `enter` marks that point
EnterBody(c, nlo, nhi) ==
  [enter |-> TRUE,
   r |-> Yield([c EXCEPT !.nlo = nlo, !.nhi = nhi], "b0", << >>)]

Suspended(r) == [enter |-> FALSE, r |-> r]

\* an address decoder that never re-reads after a page crossing
CrossOrBody_no_reread(c, res, hi) == EnterBody(c, Lo(res), Hi(res))

\* fetch_byte_from_addr!(res[0], hi) on a page crossing, else straight on
CrossOrBody(c, res, hi) ==
  IF Hi(res) # hi
  THEN Suspended(YieldReq(request_read_from_addr(
                   [c EXCEPT !.nlo = Lo(res), !.nhi = Hi(res)], Lo(res), hi),
                 "c1"))
  ELSE EnterBody(c, Lo(res), Hi(res))

decode_address(c) ==
  LET am == c.op.address_mode
  IN CASE c.pos = "d0" -> Suspended(YieldReq(request_read_from_pc(c), "d1"))
       [] c.pos = "d1" ->
            Suspended(Yield(inc_pc([c EXCEPT !.lo = data_read(c), !.hi = 0]),
                            "d2", << >>))
       [] c.pos = "d2" ->
            CASE am = "ZeroPage"  -> EnterBody(c, c.lo, 0)
              [] am = "ZeroPageX" -> EnterBody(c, Add8(c.lo, c.reg.x), 0)
              [] am = "ZeroPageY" -> EnterBody(c, Add8(c.lo, c.reg.y), 0)
              [] am \in {"Absolute", "AbsoluteX", "AbsoluteY"} ->
                   Suspended(YieldReq(request_read_from_pc(c), "d3"))
              [] am = "IndirectX" ->
                   Suspended(YieldReq(request_read_from_addr(
                               c, Add8(c.lo, c.reg.x), 0), "ix1"))
              [] am = "IndirectY" ->
                   Suspended(YieldReq(request_read_from_addr(c, c.lo, 0), "iy1"))
              [] OTHER -> Suspended(Panicked(c, << >>))
       [] c.pos = "d3" ->
            Suspended(Yield(inc_pc([c EXCEPT !.hi = data_read(c)]), "d4", << >>))
       [] c.pos = "d4" ->
            IF am = "Absolute" THEN EnterBody(c, c.lo, c.hi)
            ELSE CrossOrBody(c, Add16(Word(c.lo, c.hi),
                                      IF am = "AbsoluteX" THEN c.reg.x
                                      ELSE c.reg.y), c.hi)
       [] c.pos = "c1" -> Suspended(Yield(c, "c2", << >>))
       [] c.pos = "c2" -> EnterBody(c, c.nlo, c.nhi)
       [] c.pos = "ix1" ->
            Suspended(Yield([c EXCEPT !.nlo = data_read(c)], "ix2", << >>))
       [] c.pos = "ix2" ->
            Suspended(YieldReq(request_read_from_addr(
                        c, Add8(Add8(c.lo, c.reg.x), 1), 0), "ix3"))
       [] c.pos = "ix3" ->
            Suspended(Yield([c EXCEPT !.nhi = data_read(c)], "ix4", << >>))
       [] c.pos = "ix4" -> EnterBody(c, c.nlo, c.nhi)
       [] c.pos = "iy1" ->
            Suspended(Yield([c EXCEPT !.nlo = data_read(c)], "iy2", << >>))
       [] c.pos = "iy2" ->
            Suspended(YieldReq(request_read_from_addr(c, Add8(c.lo, 1), 0),
                               "iy3"))
       [] c.pos = "iy3" ->
            Suspended(Yield([c EXCEPT !.nhi = data_read(c)], "iy4", << >>))
       [] c.pos = "iy4" ->
            CrossOrBody(c, Add16(Word(c.nlo, c.nhi), c.reg.y), c.nhi)
       [] OTHER -> EnterBody(c, c.nlo, c.nhi)

\* the body runs from where decode_address! stopped, or from where the
\* body itself last suspended
InBody(c) == c.pos \in {"b1", "b2", "b3", "b4", "b5", "b6"}

AfterDecode(d) == IF d.enter THEN Body(d.r.c) ELSE d.r

DecodeThenBody(c) == IF InBody(c) THEN Body(c) ELSE AfterDecode(decode_address(c))

read_stepper(c) == DecodeThenBody(c)
write_stepper(c) == DecodeThenBody(c)
rmw_stepper(c) == DecodeThenBody(c)

\* the stepper get_stepper builds for opcode o, or "None"
get_stepper(o) ==
  LET m == o.mnemonic
      am == o.address_mode
  IN CASE am \in {"Implicit", "Accumulator", "Immediate"} /\ m # "RTS" -> "no_mem"
       [] am = "Relative" -> "branch"
       [] OTHER ->
            CASE m \in {"LDA", "LDX", "LDY", "EOR", "AND", "ORA", "ADC", "SBC",
                        "CMP", "CPX", "CPY", "BIT"} -> "read"
              [] m \in {"STA", "STX", "STY"} -> "write"
              [] m \in {"ASL", "LSR", "ROL", "ROR", "INC", "DEC"} -> "rmw"
              [] m \in {"PHA", "PHP"} -> "push"
              [] m \in {"PLA", "PLP"} -> "pull"
              [] m = "JMP" -> "jmp"
              [] m = "JSR" -> "jsr"
              [] m \in {"RTS", "RTI"} -> "rts_rti"
              [] OTHER -> "None"

\* a coroutine just created: nothing run yet
NewStepper(c, st, o) ==
  [c EXCEPT !.st = st, !.op = o,
            !.pos = IF st \in {"read", "write", "rmw"} THEN "d0" ELSE "0",
            !.lo = 0, !.hi = 0, !.nlo = 0, !.nhi = 0, !.val = 0]

\* stepper.resume(state)
Resume(c) ==
  CASE c.st = "read_opcode" -> read_opcode(c)
    [] c.st = "init"        -> init_stepper(c)
    [] c.st = "compensate"  -> compensate(c)
    [] c.st = "no_mem"      -> no_mem_stepper(c)
    [] c.st = "branch"      -> branch_stepper(c)
    [] c.st = "read"        -> read_stepper(c)
    [] c.st = "write"       -> write_stepper(c)
    [] c.st = "rmw"         -> rmw_stepper(c)
    [] c.st = "push"        -> push_stepper(c)
    [] c.st = "pull"        -> pull_stepper(c)
    [] c.st = "jmp"         -> jmp_stepper(c)
    [] c.st = "jsr"         -> jsr_stepper(c)
    [] OTHER                -> rts_rti_stepper(c)

\* ------------------------------------------------------------ W65C02Logic

\* decode_op panics on a byte outside the table; the unwrap in tick panics
\* when get_stepper returns None
decode_op(opcode) == OPERATIONS[opcode]

\* get_stepper(&op).unwrap()
WithStepper(c, op) ==
  IF get_stepper(op) = "None" THEN [c EXCEPT !.st = "panic"]
  ELSE NewStepper(c, get_stepper(op), op)

\* a decoder that answers an unknown opcode with another opcode fetch
decode_or_fetch(c) ==
  LET c0 == set_sync(c, FALSE)
  IN IF c.reg.ir \notin OpCodes THEN NewStepper(c0, "read_opcode", NoOperation)
     ELSE WithStepper(c0, decode_op(c.reg.ir))

decode_and_get_stepper(c) ==
  LET c0 == set_sync(c, FALSE)
  IN IF c.reg.ir \notin OpCodes THEN [c0 EXCEPT !.st = "panic"]
     ELSE WithStepper(c0, decode_op(c.reg.ir))

\* W65C02Logic::tick: pick a stepper when there is none, resume it once,
\* drop it when it returned, count the tick
\* the match on the resume's result r, and advance_cycles
\* a tick that counts the cycle only when the stepper suspended
Resumed_unless_returned(r) ==
  IF r.c.st = "panic" THEN [c |-> r.c, w |-> r.w]
  ELSE [c |-> [r.c EXCEPT !.st = IF r.ret THEN "none" ELSE @,
                          !.has = IF r.ret THEN r.has_opcode ELSE @,
                          !.cycles = IF r.ret THEN @ ELSE @ + 1],
        w |-> r.w]

Resumed(r) ==
  IF r.c.st = "panic" THEN [c |-> r.c, w |-> r.w]
  ELSE [c |-> [r.c EXCEPT !.st = IF r.ret THEN "none" ELSE @,
                          !.has = IF r.ret THEN r.has_opcode ELSE @,
                          !.cycles = @ + 1],
        w |-> r.w]

ResumeStepper(c1) ==
  IF c1.st = "panic" THEN [c |-> c1, w |-> << >>] ELSE Resumed(Resume(c1))

tick(c) ==
  ResumeStepper(IF c.st # "none" THEN c
                ELSE IF ~c.sync THEN NewStepper(c, "read_opcode", NoOperation)
                ELSE decode_and_get_stepper(c))

\* W65C02::init
W65C02_init(c) == set_pc(c, 512)

\* W65C02::on_pin_state_change; PHI1O and PHI2O are written first
W65C02_on_pin_state_change(c, g, val) ==
  IF g = "PHI2"
  THEN tick([c EXCEPT !.phi1o = ~val, !.phi2o = val])
  ELSE [c |-> c, w |-> << >>]

\* level of pin (g, i) of the CPU
CpuPin(c, g, i) ==
  CASE g = "PHI2" -> c.phi2
    [] g = "D"    -> BitSet(c.d, i)
    [] g = "A"    -> BitSet(c.addr, i)
    [] OTHER      -> c.rw

\* a word with bit i forced to val
WithBit(v, i, val) == v - Bit(v, i) * Pow2(i) + B2N(val) * Pow2(i)

\* pin.set_val on pin (g, i) of the CPU
CpuSetVal(c, g, i, val) ==
  CASE g = "PHI2" -> [c EXCEPT !.phi2 = val]
    [] g = "D"    -> [c EXCEPT !.d = WithBit(c.d, i, val)]
    [] g = "A"    -> [c EXCEPT !.addr = WithBit(c.addr, i, val)]
    [] OTHER      -> [c EXCEPT !.rw = val]

\* ---------------------------------------------------------------- HM62256B
\* memory is kept sparse: absent cells read 0 (HM62256BLogic::new)

MemRead(m, a) == IF a \in DOMAIN m THEN m[a] ELSE 0

MemWrite(m, a, v) ==
  IF v = 0 THEN [x \in DOMAIN m \ {a} |-> m[x]]
  ELSE [x \in DOMAIN m \cup {a} |-> IF x = a THEN v ELSE m[x]]

\* HM62256B::new: every pin low, data pins built as outputs, enabled
HM62256B_new(m) ==
  [mem |-> m, cs |-> FALSE, we |-> FALSE, oe |-> FALSE,
   a |-> 0, d |-> 0, ddir |-> "Output", en |-> TRUE]

is_enabled(r) == ~r.cs
can_write(r) == is_enabled(r) /\ ~r.we
\* a chip that reads whenever it is selected with OE low
can_read_any_we(r) == is_enabled(r) /\ ~r.oe
can_read(r) == is_enabled(r) /\ ~can_write(r) /\ ~r.oe

\* PinDirection::from(bool)
PinDirection_from(val) == IF val THEN "Output" ELSE "Input"

\* the chip's data.write(v): drives only as an enabled output
ram_data_write(r, v) ==
  IF r.ddir = "Output" /\ r.en
  THEN [c |-> [r EXCEPT !.d = v], w |-> << <<"D", v>> >>]
  ELSE [c |-> r, w |-> << >>]

write_byte(r) ==
  IF can_write(r)
  THEN [c |-> [r EXCEPT !.mem = MemWrite(r.mem, r.a, r.d)], w |-> << >>]
  ELSE [c |-> r, w |-> << >>]

\* a chip that stores what is on its data pins when an address pin changes
\* while it can write
read_byte_or_store(r) ==
  IF can_read(r) THEN ram_data_write(r, MemRead(r.mem, r.a))
  ELSE write_byte(r)

read_byte(r) ==
  IF can_read(r) THEN ram_data_write(r, MemRead(r.mem, r.a))
  ELSE [c |-> r, w |-> << >>]

set_enable(r, val) == [r EXCEPT !.en = val]

ram_set_data_direction(r, val) == [r EXCEPT !.ddir = PinDirection_from(val)]

\* a chip whose data pins follow the addressed cell whatever CS, WE, OE
HM62256B_always_driving(r, g, val) ==
  CASE g = "CS" -> [c |-> set_enable(r, ~val), w |-> << >>]
    [] g = "D"  -> write_byte(r)
    [] OTHER    -> [c |-> [r EXCEPT !.d = MemRead(r.mem, r.a)],
                    w |-> << <<"D", MemRead(r.mem, r.a)>> >>]

HM62256B_on_pin_state_change(r, g, val) ==
  CASE g = "CS" -> [c |-> set_enable(r, ~val), w |-> << >>]
    [] g = "WE" -> [c |-> ram_set_data_direction(r, val), w |-> << >>]
    [] g = "OE" -> [c |-> ram_set_data_direction(r, ~val \/ r.we), w |-> << >>]
    [] g = "A"  -> read_byte(r)
    [] g = "D"  -> write_byte(r)
    [] OTHER    -> [c |-> r, w |-> << >>]

RamPin(r, g, i) ==
  CASE g = "CS" -> r.cs
    [] g = "WE" -> r.we
    [] g = "OE" -> r.oe
    [] g = "A"  -> BitSet(r.a, i)
    [] OTHER    -> BitSet(r.d, i)

RamSetVal(r, g, i, val) ==
  CASE g = "CS" -> [r EXCEPT !.cs = val]
    [] g = "WE" -> [r EXCEPT !.we = val]
    [] g = "OE" -> [r EXCEPT !.oe = val]
    [] g = "A"  -> [r EXCEPT !.a = WithBit(r.a, i, val)]
    [] OTHER    -> [r EXCEPT !.d = WithBit(r.d, i, val)]

\* ---------------------------------------------------------------- W24512A
\* W24512A::new: every pin low, data pins built as outputs, enabled
W24512A_new(m) ==
  [mem |-> m, cs1 |-> FALSE, cs2 |-> FALSE, we |-> FALSE, oe |-> FALSE,
   a |-> 0, d |-> 0, ddir |-> "Output", en |-> TRUE]

\* `true`; the test of CS1 and CS2 is commented out
W24512A_is_enabled(r) == TRUE
W24512A_can_write(r) == W24512A_is_enabled(r) /\ ~r.we
W24512A_can_read(r) ==
  W24512A_is_enabled(r) /\ ~W24512A_can_write(r) /\ ~r.oe

W24512A_write_byte(r) ==
  IF W24512A_can_write(r)
  THEN [c |-> [r EXCEPT !.mem = MemWrite(r.mem, r.a, r.d)], w |-> << >>]
  ELSE [c |-> r, w |-> << >>]

W24512A_read_byte(r) ==
  IF W24512A_can_read(r) THEN ram_data_write(r, MemRead(r.mem, r.a))
  ELSE [c |-> r, w |-> << >>]

W24512A_set_enable(r) == [r EXCEPT !.en = ~r.cs1 /\ r.cs2]

\* the match on the pin's name: "C1" | "CS2", "WE", "OE", then the group
\* of the pin; the chip's pins are named CS1 and CS2
W24512A_on_pin_state_change(r, g, val) ==
  CASE g \in {"C1", "CS2"} -> [c |-> W24512A_set_enable(r), w |-> << >>]
    [] g = "WE" -> [c |-> ram_set_data_direction(r, val), w |-> << >>]
    [] g = "OE" -> [c |-> ram_set_data_direction(r, ~val \/ r.we), w |-> << >>]
    [] g = "A"  -> W24512A_read_byte(r)
    [] g = "D"  -> W24512A_write_byte(r)
    [] OTHER    -> [c |-> r, w |-> << >>]

W24512APin(r, g, i) ==
  CASE g = "CS1" -> r.cs1
    [] g = "CS2" -> r.cs2
    [] OTHER     -> RamPin(r, g, i)

W24512ASetVal(r, g, i, val) ==
  CASE g = "CS1" -> [r EXCEPT !.cs1 = val]
    [] g = "CS2" -> [r EXCEPT !.cs2 = val]
    [] OTHER     -> RamSetVal(r, g, i, val)

\* --------------------------------------------- component thread loop body
\* `if pin.state() != msg.val { pin.set_val(msg.val);
\*                              comp.on_pin_state_change(..) }`
\* the handler ran: its outcome r, marked as a call of on_pin_state_change
Called(r) == [c |-> r.c, w |-> r.w, called |-> TRUE]
\* the message was dropped: component x is as it was
NotCalled(x) == [c |-> x, w |-> << >>, called |-> FALSE]

\* the loop body without its `if`: every message sets the pin and calls
CpuDeliverAlways(c, g, i, val) ==
  Called(W65C02_on_pin_state_change(CpuSetVal(c, g, i, val), g, val))

CpuDeliver(c, g, i, val) ==
  IF CpuPin(c, g, i) # val
  THEN Called(W65C02_on_pin_state_change(CpuSetVal(c, g, i, val), g, val))
  ELSE NotCalled(c)

RamDeliver(r, g, i, val) ==
  IF RamPin(r, g, i) # val
  THEN Called(HM62256B_on_pin_state_change(RamSetVal(r, g, i, val), g, val))
  ELSE NotCalled(r)

W24512ADeliver(r, g, i, val) ==
  IF W24512APin(r, g, i) # val
  THEN Called(W24512A_on_pin_state_change(W24512ASetVal(r, g, i, val), g, val))
  ELSE NotCalled(r)

\* ------------------------------------------------------------------ state
VARIABLES
  cpu,    \* U1: the W65C02 (registers, pin levels, coroutine position)
  ram,    \* U6: the HM62256B (cells, pin levels)
  osc,    \* X1: level of OUT, and how often Oscilator::init has toggled it
  circ,   \* the circuit channel: messages written by component pins
  chan,   \* one channel per component: messages routed to its pins
  out,    \* per component thread: the sends its handler has still to make
  mach,   \* the thread in Machine::step: position, threshold, Circuit.state
  thread, \* per component thread: asleep before init, or in its loop
  h       \* history, read by the properties only

vars == <<cpu, ram, osc, circ, chan, out, mach, thread, h>>

Components == {"X1", "U1", "U6"}

\* ----------------------------------------------------------------- bounds
\* half-cycles a CPU driven alone is given
MaxTicks == 10

\* SpecCpu: the bytes a driver presents on the data pins
DVals == {0, 255}
\* SpecCpu: register values a driver starts the CPU with
AVals == {0, 128}
XYVals == {0, 1}
PcVals == {512, 767}

\* history before anything has happened
H0 ==
  [\* SpecCpu: the preset stepper and the half-cycles it has taken
   op0 |-> 0, viaGet |-> FALSE, run |-> FALSE, done |-> FALSE,
   ticks |-> 0, cross |-> 0,
   \* SpecCpu: the calls of W65C02Logic::tick made so far
   calls |-> 0,
   \* SpecRun: whether Machine::stop has been called, and the parity of the
   \* loop's rounds past the steps the model follows
   stopped |-> FALSE,
   beyond |-> FALSE,
   \* SpecA15: the access a case makes (kind, address, byte)
   a15 |-> [kind |-> "", addr |-> 0, v |-> 0],
   \* SpecRam: bytes written through the bus, address of the read just made
   wr |-> << >>, rd |-> -1,
   \* the machine: the program's v and addr; the last delivery to a pin;
   \* whether the last Circuit::tick found messages pending; PHI2 changes
   \* and resumes since that tick; the last byte the CPU read and the cell
   \* it had addressed; registers tick by tick when every wave completes
   v |-> 0, addr |-> 0,
   last |-> [comp |-> "", prior |-> FALSE, val |-> FALSE, called |-> FALSE,
             quiet |-> TRUE],
   busy |-> FALSE, edges |-> 0, resumes |-> 0,
   read |-> [got |-> FALSE, byte |-> 0, want |-> 0],
   ref |-> << >>,
   \* SpecIsa: the case run (registers and memory at its start, steppers
   \* still to preset), the bus writes and reads made, and the half-cycles
   \* at which SYNC rose and at which a preset stepper returned
   isa |-> [on |-> FALSE, boot |-> FALSE, reg |-> Registers_default,
            mem |-> << >>,
            todo |-> << >>, wr |-> << >>, rd |-> << >>, sync |-> << >>,
            ends |-> << >>],
   \* SpecPins: the pin group of the last delivery to the RAM, whether the
   \* handler ran, whether memory changed and whether the data port was
   \* driven, and the byte on the CPU's data pins before the delivery
   pins |-> [g |-> "", called |-> FALSE, stored |-> FALSE, drove |-> FALSE,
             cpud |-> 0],
   \* SpecGraph: the last call on a pin, the pins before it, and whether
   \* it called the pin's handler
   graph |-> [op |-> "", pin |-> "", val |-> FALSE, before |-> << >>,
              notified |-> FALSE]]

Osc0 == [out |-> FALSE, n |-> 0]
Mach0 == [pc |-> "idle", thr |-> 0, state |-> FALSE, steps |-> 0,
          fwd |-> << >>]
NoMsgs == [k \in Components |-> << >>]
\* every spawned thread starts with thread::sleep(500 ms)
Asleep == [k \in Components |-> "sleep"]

\* ---------------------------------------------------------------- SpecCpu
\* The CPU as the tests of w65c02.rs drive it: a W65C02::new(), optionally
\* init(), registers set, `logic.stepper` preset (test_with_real_stepper)
\* or left None; then PHI2 edges, with bytes appearing on the data pins.

\* steppers a driver can build: through get_stepper, or a constructor of
\* steppers.rs called with an operation it is written for
Preset(st, op, viaGet) == <<st, op, viaGet>>

Presets ==
  {Preset(get_stepper(op), op, TRUE) : op \in {OPERATIONS[o] : o \in OpCodes}}
  \cup {Preset(pr[1], OPERATIONS[pr[2]], FALSE) :
          pr \in {<<"push", 72>>, <<"push", 8>>, <<"pull", 104>>,
                  <<"pull", 40>>, <<"rts_rti", 64>>}}
  \cup {Preset("init", NoOperation, FALSE),
        Preset("compensate", NoOperation, FALSE)}

InitCpu ==
  /\ \E a \in AVals, x \in XYVals, y \in XYVals, pc \in PcVals :
       LET c0 == set_pc(set_y(set_x(set_a(W65C02_new, a), x), y), pc)
       IN \/ /\ cpu = c0
             /\ h = H0
          \/ \E pr \in Presets :
               /\ cpu = NewStepper(c0, pr[1], pr[2])
               /\ h = [H0 EXCEPT !.op0 = pr[2].opcode, !.viaGet = pr[3], !.run = TRUE]
  /\ ram = HM62256B_new(<< >>)
  /\ osc = Osc0
  /\ circ = << >>
  /\ chan = NoMsgs
  /\ out = NoMsgs
  /\ mach = Mach0
  /\ thread = Asleep

RECURSIVE CpuDeliverD(_, _, _)
\* the thread loop body run for D0..D7 with the levels of byte b
CpuDeliverD(c, b, i) ==
  IF i = 8 THEN c
  ELSE CpuDeliverD(CpuDeliver(c, "D", i, BitSet(b, i)).c, b, i + 1)

\* a PHI2 edge reaches the CPU
\* the driver's bookkeeping of the preset stepper, c2 being the CPU after
\* the tick
Counted(c2) ==
  LET ends == h.run /\ c2.st \in {"none", "panic"}
  IN [h EXCEPT !.calls = @ + 1,
               !.ticks = IF h.run THEN @ + 1 ELSE @,
               !.cross = IF h.run /\ c2.pos = "c1" /\ cpu.pos # "c1"
                         THEN @ + 1 ELSE @,
               !.run = h.run /\ ~ends,
               !.done = h.done \/ (ends /\ c2.st = "none")]

CpuTicked(r) == cpu' = r.c /\ h' = Counted(r.c)

CpuPhi2 ==
  /\ cpu.st # "panic"
  /\ cpu.cycles < MaxTicks
  /\ CpuTicked(CpuDeliver(cpu, "PHI2", 0, ~cpu.phi2))
  /\ UNCHANGED <<ram, osc, circ, chan, out, mach, thread>>

\* a byte appears on the CPU's data pins
CpuData ==
  /\ cpu.st # "panic"
  /\ \E b \in DVals :
       /\ b # cpu.d
       /\ cpu' = CpuDeliverD(cpu, b, 0)
  /\ UNCHANGED <<ram, osc, circ, chan, out, mach, thread, h>>

NextCpu == CpuPhi2 \/ CpuData

SpecCpu == InitCpu /\ [][NextCpu]_vars

\* ---------------------------------------------------------------- SpecRam
\* The SRAM on a bus.  Levels reach its input pins as the circuit delivers
\* them: one pin at a time through the component thread's loop, which calls
\* on_pin_state_change for a pin whose level changes.

RamAddrs == {0, 1, 6}
RamBytes == {0, 3, 255}

\* one delivery: the level val for pin i of group g
Level(g, i, val) == [g |-> g, i |-> i, val |-> val]

\* the levels of word w on the n pins of port g, lowest pin first
PortLevels(g, n, w) == [k \in 1..n |-> Level(g, k - 1, BitSet(w, k - 1))]

RECURSIVE RamFeed(_, _)
\* the thread loop run over the deliveries msgs in order
RamFeed(r, msgs) ==
  IF msgs = << >> THEN r
  ELSE IF RamPin(r, msgs[1].g, msgs[1].i) = msgs[1].val
  THEN RamFeed(r, Tail(msgs))
  ELSE RamFeed(RamDeliver(r, msgs[1].g, msgs[1].i, msgs[1].val).c, Tail(msgs))

\* a bus write of b to a: CS low, WE low, the address, then the data
BusWrite(a, b) ==
  << Level("CS", 0, FALSE), Level("WE", 0, FALSE) >>
    \o PortLevels("A", 15, a) \o PortLevels("D", 8, b)

\* a bus read of a: CS low, OE low, WE high, the address
BusRead(a) ==
  << Level("CS", 0, FALSE), Level("OE", 0, FALSE), Level("WE", 0, TRUE) >>
    \o PortLevels("A", 15, a)

\* the bytes the bus has written so far, by address
Written(wr, a, b) == [x \in DOMAIN wr \cup {a} |-> IF x = a THEN b ELSE wr[x]]

InitRam ==
  /\ ram = HM62256B_new(<< >>)
  /\ h = H0
  /\ cpu = W65C02_new
  /\ osc = Osc0
  /\ circ = << >>
  /\ chan = NoMsgs
  /\ out = NoMsgs
  /\ mach = Mach0
  /\ thread = Asleep

RamBusWrite ==
  /\ \E a \in RamAddrs, b \in RamBytes :
       /\ ram' = RamFeed(ram, BusWrite(a, b))
       /\ h' = [h EXCEPT !.wr = Written(h.wr, a, b), !.rd = -1]
  /\ UNCHANGED <<cpu, osc, circ, chan, out, mach, thread>>

RamBusRead ==
  /\ \E a \in RamAddrs :
       /\ ram' = RamFeed(ram, BusRead(a))
       /\ h' = [h EXCEPT !.rd = a]
  /\ UNCHANGED <<cpu, osc, circ, chan, out, mach, thread>>

NextRam == RamBusWrite \/ RamBusRead

SpecRam == InitRam /\ [][NextRam]_vars

\* ------------------------------------------------------------ the machine
\* BenEaterMachine: X1, U1 and U6 each on a thread of its own, the caller of
\* Machine::step on another; bounded channels between them.

CIRCUIT_MESSAGE_CAP == 100
COMPONENT_MESSAGE_CAP == 100

\* calls of Machine::step a run is given
MaxSteps == 4
\* empty polls after which step gives up (50000 in ben_eater.rs; any
\* number of other threads' steps fits between two polls)
Threshold == 1
\* toggles Oscilator::init makes
MaxOscTicks == 1

\* PinMessage::new(component, pin, val), the pin named by group and index
Msg(comp, g, i, val) == [comp |-> comp, g |-> g, i |-> i, val |-> val]

\* the messages of one port write pw = <<port, word>> of component comp:
\* every linked pin of the port sends its level
PinMsgs(comp, pw) ==
  CASE pw[1] = "RW" -> << Msg(comp, "RW", 0, pw[2] = 1) >>
    [] pw[1] = "A"  -> [k \in 1..15 |-> Msg(comp, "A", k - 1, BitSet(pw[2], k - 1))]
    [] OTHER        -> [k \in 1..8 |-> Msg(comp, "D", k - 1, BitSet(pw[2], k - 1))]

RECURSIVE Sent(_, _)
\* the messages of a handler's port writes w, in order
Sent(comp, w) ==
  IF w = << >> THEN << >> ELSE PinMsgs(comp, w[1]) \o Sent(comp, Tail(w))

\* circuit.components[msg.component].links.get(msg.pin), as the messages
\* step forwards (with_program's link and link_range calls)
Links(m) ==
  CASE m.comp = "X1" /\ m.g = "OUT" -> << Msg("U1", "PHI2", 0, m.val) >>
    [] m.comp = "U1" /\ m.g = "RW"  -> << Msg("U6", "WE", 0, m.val) >>
    [] m.comp = "U1" /\ m.g = "A"   -> << Msg("U6", "A", m.i, m.val) >>
    [] m.comp = "U1" /\ m.g = "D"   -> << Msg("U6", "D", m.i, m.val) >>
    [] m.comp = "U6" /\ m.g = "D"   -> << Msg("U1", "D", m.i, m.val) >>
    [] OTHER                        -> << >>

RECURSIVE load(_, _, _)
\* HM62256BLogic::load
load(m, addr, data) ==
  IF data = << >> THEN m
  ELSE load(MemWrite(m, addr, data[1]), addr + 1, Tail(data))

\* LDA #v; STA addr; LDA #0; LDA addr
Program(v, addr) ==
  << 169, v, 141, Lo(addr), Hi(addr), 169, 0, 173, Lo(addr), Hi(addr) >>

\* where the program is loaded, and the address after its last byte
ProgramStart == 512
ProgramEnd == ProgramStart + Len(Program(0, 0))

\* BenEaterMachine::with_program: the reset vector, then the image
with_program(addr, data) ==
  HM62256B_new(load(MemWrite(MemWrite(<< >>, 32764, 0), 32765, 2), addr, data))

RECURSIVE Route(_)
\* the deliveries step makes for the sent messages msgs
Route(msgs) ==
  IF msgs = << >> THEN << >> ELSE Links(msgs[1]) \o Route(Tail(msgs))

RECURSIVE Wave(_, _, _)
\* d is the outcome of a delivery to U1 (WaveCpu) or to U6 (WaveRam): what
\* the handler wrote is routed and queued behind the deliveries still due
WaveCpu(d, r, rest) == Wave(d.c, r, rest \o Route(Sent("U1", d.w)))
WaveRam(c, d, rest) == Wave(c, d.c, rest \o Route(Sent("U6", d.w)))

\* a propagation wave run to its end with no thread in between: the
\* deliveries msgs made in order, each through the receiver's loop body
Wave(c, r, msgs) ==
  IF msgs = << >> THEN [cpu |-> c, ram |-> r]
  ELSE IF msgs[1].comp = "U1"
  THEN WaveCpu(CpuDeliver(c, msgs[1].g, msgs[1].i, msgs[1].val), r, Tail(msgs))
  ELSE WaveRam(c, RamDeliver(r, msgs[1].g, msgs[1].i, msgs[1].val), Tail(msgs))

\* the next PHI2 edge and its whole wave
RefNext(s) == Wave(s.cpu, s.ram, << Msg("U1", "PHI2", 0, ~s.cpu.phi2) >>)

RECURSIVE RefRun(_, _)
\* the machine after n PHI2 edges, each wave complete before the next edge
RefRun(image, n) ==
  IF n = 0 THEN [cpu |-> W65C02_init(W65C02_new), ram |-> image]
  ELSE RefNext(RefRun(image, n - 1))

\* the registers after each of the first edges of that run
RefRegs(image) ==
  [n \in 0..(MaxSteps + MaxOscTicks) |-> RefRun(image, n).cpu.reg]

\* with_program(0x200, Program(v, a)) just built: every thread asleep
Machine0(v, a) ==
  /\ cpu = W65C02_new
  /\ ram = with_program(ProgramStart, Program(v, a))
  /\ osc = Osc0
  /\ circ = << >>
  /\ chan = NoMsgs
  /\ out = NoMsgs
  /\ mach = Mach0
  /\ thread = Asleep
  /\ h = [H0 EXCEPT !.v = v, !.addr = a,
                    !.ref = RefRegs(with_program(ProgramStart, Program(v, a)))]

\* something of a wave is still under way
Pending ==
  \/ circ # << >>
  \/ \E k \in Components : chan[k] # << >> \/ out[k] # << >>

\* Circuit::tick at the head of Machine::step, the run being given limit steps
MTick(limit) ==
  /\ mach.pc = "idle"
  /\ mach.steps < limit
  /\ Len(circ) < CIRCUIT_MESSAGE_CAP
  /\ circ' = Append(circ, Msg("X1", "OUT", 0, mach.state))
  /\ mach' = [mach EXCEPT !.pc = "poll", !.thr = Threshold,
                          !.state = ~mach.state, !.steps = @ + 1]
  /\ h' = [h EXCEPT !.busy = Pending, !.edges = 0, !.resumes = 0]
  /\ UNCHANGED <<cpu, ram, osc, chan, out, thread>>

\* try_recv finds the circuit channel empty
MPollEmpty ==
  /\ mach.pc = "poll"
  /\ circ = << >>
  /\ mach' = [mach EXCEPT !.thr = @ - 1,
                          !.pc = IF mach.thr = 1 THEN "idle" ELSE "poll"]
  /\ UNCHANGED <<cpu, ram, osc, circ, chan, out, thread, h>>

\* try_recv takes a message; its links are what step will send
MPollMsg ==
  /\ mach.pc = "poll"
  /\ circ # << >>
  /\ circ' = Tail(circ)
  /\ mach' = [mach EXCEPT !.fwd = Links(Head(circ)),
                          !.pc = IF Links(Head(circ)) = << >> THEN "poll"
                                 ELSE "fwd"]
  /\ UNCHANGED <<cpu, ram, osc, chan, out, thread, h>>

\* the blocking send into the linked component's channel
MFwd ==
  /\ mach.pc = "fwd"
  /\ Len(chan[Head(mach.fwd).comp]) < COMPONENT_MESSAGE_CAP
  /\ chan' = [chan EXCEPT ![Head(mach.fwd).comp] = Append(@, Head(mach.fwd))]
  /\ mach' = [mach EXCEPT !.fwd = Tail(@),
                          !.pc = IF Tail(mach.fwd) = << >> THEN "poll"
                                 ELSE "fwd"]
  /\ UNCHANGED <<cpu, ram, osc, circ, out, thread, h>>

\* a component thread wakes from its sleep and runs init
ThreadStart ==
  \E k \in Components :
    /\ thread[k] = "sleep"
    /\ thread' = [thread EXCEPT ![k] = "loop"]
    /\ cpu' = IF k = "U1" THEN W65C02_init(cpu) ELSE cpu
    /\ UNCHANGED <<ram, osc, circ, chan, out, mach, h>>

\* Oscilator::init, which never returns: one round of its loop
OscTick ==
  /\ thread["X1"] = "loop"
  /\ osc.n < MaxOscTicks
  /\ out["X1"] = << >>
  /\ osc' = [out |-> ~osc.out, n |-> osc.n + 1]
  /\ out' = [out EXCEPT !["X1"] = << Msg("X1", "OUT", 0, ~osc.out) >>]
  /\ UNCHANGED <<cpu, ram, circ, chan, mach, thread, h>>

\* Component::write by the thread of k: the blocking send into the
\* circuit channel
SendBy(k) ==
  /\ out[k] # << >>
  /\ Len(circ) < CIRCUIT_MESSAGE_CAP
  /\ circ' = Append(circ, Head(out[k]))
  /\ out' = [out EXCEPT ![k] = Tail(@)]
  /\ UNCHANGED <<cpu, ram, osc, chan, mach, thread, h>>

Send == \E k \in Components : SendBy(k)

\* what the properties keep of a delivery
Delivery(comp, prior, val, called, quiet) ==
  [comp |-> comp, prior |-> prior, val |-> val, called |-> called,
   quiet |-> quiet]

\* the CPU is at a resume that reads the data port for an address it put
\* on the bus (in the machine no other stepper than read_opcode ever runs)
ReadsData(c) == c.st = "read_opcode" /\ c.pos = "1"

\* U1 has run its loop body on m, with outcome r
U1Received(m, r) ==
  /\ cpu' = r.c
  /\ out' = [out EXCEPT !["U1"] = Sent("U1", r.w)]
  /\ h' = [h EXCEPT
             !.last = Delivery("U1", CpuPin(cpu, m.g, m.i), m.val, r.called,
                               r.c = cpu /\ r.w = << >>),
             !.edges = IF r.c.phi2 # cpu.phi2 THEN @ + 1 ELSE @,
             !.resumes = @ + (r.c.cycles - cpu.cycles),
             !.read = IF r.c.cycles # cpu.cycles /\ ReadsData(cpu)
                      THEN [got |-> TRUE, byte |-> r.c.reg.ir,
                            want |-> MemRead(ram.mem, cpu.addr % 32768)]
                      ELSE @]

U1Recv ==
  /\ thread["U1"] = "loop"
  /\ cpu.st # "panic"
  /\ out["U1"] = << >>
  /\ chan["U1"] # << >>
  /\ U1Received(Head(chan["U1"]),
                CpuDeliver(cpu, Head(chan["U1"]).g, Head(chan["U1"]).i,
                           Head(chan["U1"]).val))
  /\ chan' = [chan EXCEPT !["U1"] = Tail(@)]
  /\ UNCHANGED <<ram, osc, circ, mach, thread>>

\* U6 has run its loop body on m, with outcome r
U6Received(m, r) ==
  /\ ram' = r.c
  /\ out' = [out EXCEPT !["U6"] = Sent("U6", r.w)]
  /\ h' = [h EXCEPT
             !.last = Delivery("U6", RamPin(ram, m.g, m.i), m.val, r.called,
                               r.c = ram /\ r.w = << >>)]

U6Recv ==
  /\ thread["U6"] = "loop"
  /\ out["U6"] = << >>
  /\ chan["U6"] # << >>
  /\ U6Received(Head(chan["U6"]),
                RamDeliver(ram, Head(chan["U6"]).g, Head(chan["U6"]).i,
                           Head(chan["U6"]).val))
  /\ chan' = [chan EXCEPT !["U6"] = Tail(@)]
  /\ UNCHANGED <<cpu, osc, circ, mach, thread>>

\* ------------------------------------------------------------------- Spec
\* The four threads interleaved, a handler's sends running ahead of the
\* other threads while the circuit channel has room for them.

Init == Machine0(5, 16)

\* a component thread can make its next send
Sending ==
  \E k \in Components : out[k] # << >> /\ Len(circ) < CIRCUIT_MESSAGE_CAP

MStep == ~Sending /\ MTick(MaxSteps)
MEmpty == ~Sending /\ MPollEmpty
MTake == ~Sending /\ MPollMsg
MSend == ~Sending /\ MFwd
Wake == ~Sending /\ ThreadStart
Toggle == ~Sending /\ OscTick
U1Loop == ~Sending /\ U1Recv
U6Loop == ~Sending /\ U6Recv

Next ==
  \/ MStep \/ MEmpty \/ MTake \/ MSend
  \/ Wake \/ Toggle \/ Send \/ U1Loop \/ U6Loop

Spec == Init /\ [][Next]_vars

\* --------------------------------------------------------------- SpecFair
\* Spec with the threads scheduled again and again: a component thread
\* that can run does run, and a step under way goes on polling and
\* forwarding.  Whether another step is called, and whether the oscillator
\* fires again, is left open.

\* a toggle of the clock: Circuit::tick in a step, or the oscillator's own
IssuesToggle == MStep \/ Toggle

\* what goes on by itself once a toggle has been issued
Propagates == MEmpty \/ MTake \/ MSend \/ Wake \/ Send \/ U1Loop \/ U6Loop

SpecFair == Spec /\ WF_vars(Propagates)

\* -------------------------------------------------------------- SpecQuiet
\* The machine as Machine::start runs it while the oscillator has not yet
\* fired: the threads are up before the first step, and each wave is over
\* before the step loop polls an empty channel.

\* steps the program of ten bytes is given
QuietSteps == 31

\* the byte v and the address addr of the program
ProgValues == {0, 5, 128}
ProgAddrs == {16, 768}

InitQuiet == \E v \in ProgValues, a \in ProgAddrs : Machine0(v, a)

\* every thread is in its loop and nothing is under way
Calm == ~Pending /\ \A k \in Components : thread[k] = "loop"

\* no component has a message to receive
Received == \A k \in Components : chan[k] = << >>

QStep == Calm /\ MTick(QuietSteps)
QEmpty == Calm /\ MPollEmpty
QTake == ~Sending /\ Received /\ MPollMsg

NextQuiet ==
  \/ ThreadStart \/ QStep \/ QEmpty \/ QTake \/ MSend
  \/ Send \/ U1Loop \/ U6Loop

SpecQuiet == InitQuiet /\ [][NextQuiet]_vars

\* ---------------------------------------------------------------- SpecRun
\* Machine::start with a caller of Machine::stop beside it.  start sleeps,
\* calls reset (an empty body) and then loops over step and a sleep; the
\* loop has no exit, so no action ends it.  stop has an empty body: the
\* call leaves the machine as it is.  The loop and the threads keep being
\* scheduled; whether stop is called is up to the caller.

RunStop ==
  /\ ~h.stopped
  /\ h' = [h EXCEPT !.stopped = TRUE]
  /\ UNCHANGED <<cpu, ram, osc, circ, chan, out, mach, thread>>

\* the rounds of the loop past the QuietSteps steps whose effect on the
\* machine is followed: start is still in its loop
RunOn ==
  /\ Calm
  /\ mach.pc = "idle"
  /\ mach.steps = QuietSteps
  /\ h' = [h EXCEPT !.beyond = ~@]
  /\ UNCHANGED <<cpu, ram, osc, circ, chan, out, mach, thread>>

NextRun == NextQuiet \/ RunOn \/ RunStop

SpecRun == InitQuiet /\ [][NextRun]_vars /\ WF_vars(NextQuiet \/ RunOn)

\* -------------------------------------------------------------- SpecBurst
\* Machine::step called again and again while the component threads are
\* still in their 500 ms sleep; when the step loop can go no further the
\* threads wake, U6 scheduled before U1 and U1 before the caller.

BurstSteps == COMPONENT_MESSAGE_CAP + 1

\* the thread of k can take its next step
CanRun(k) ==
  /\ thread[k] = "loop"
  /\ \/ out[k] # << >> /\ Len(circ) < CIRCUIT_MESSAGE_CAP
     \/ out[k] = << >> /\ chan[k] # << >>

\* step is in its send, the component's channel full
StepBlocked ==
  mach.pc = "fwd" /\ Len(chan[Head(mach.fwd).comp]) >= COMPONENT_MESSAGE_CAP

BU1Send == ~CanRun("U6") /\ SendBy("U1")
BU1Loop == ~CanRun("U6") /\ U1Recv
BStep == thread = Asleep /\ MTick(BurstSteps)
BEmpty == ~CanRun("U6") /\ ~CanRun("U1") /\ MPollEmpty
BTake == ~CanRun("U6") /\ ~CanRun("U1") /\ MPollMsg
BSend == ~CanRun("U6") /\ ~CanRun("U1") /\ MFwd
BWake == StepBlocked /\ ThreadStart

NextBurst ==
  \/ BStep \/ BEmpty \/ BTake \/ BSend \/ BWake
  \/ BU1Send \/ BU1Loop \/ SendBy("U6") \/ U6Recv

SpecBurst == Init /\ [][NextBurst]_vars


\* ------------------------------------------------- the RAM, pin by pin
\* HM62256B alone, its thread loop fed one pin level at a time: the three
\* control pins, and the lowest address and data pins.
RamAPins == {0}
RamDPins == {0, 1}

InitPins ==
  /\ ram = HM62256B_new(load(<< >>, 0, <<2, 1>>))
  /\ h = H0
  /\ cpu = W65C02_new
  /\ osc = Osc0
  /\ circ = << >>
  /\ chan = NoMsgs
  /\ out = NoMsgs
  /\ mach = Mach0
  /\ thread = Asleep

\* the byte the chip drove reaches the data pins linked to its own
LinkedD(c, w) == IF w = << >> THEN c ELSE CpuDeliverD(c, w[1][2], 0)

PinDelivered(g, r) ==
  /\ ram' = r.c
  /\ cpu' = LinkedD(cpu, r.w)
  /\ h' = [h EXCEPT !.pins = [g |-> g, called |-> r.called,
                              stored |-> r.c.mem # ram.mem,
                              drove |-> r.w # << >>, cpud |-> cpu.d]]
  /\ UNCHANGED <<osc, circ, chan, out, mach, thread>>

RamControl ==
  \E g \in {"CS", "WE", "OE"}, val \in BOOLEAN :
    PinDelivered(g, RamDeliver(ram, g, 0, val))

RamAddress ==
  \E i \in RamAPins, val \in BOOLEAN :
    PinDelivered("A", RamDeliver(ram, "A", i, val))

RamData ==
  \E i \in RamDPins, val \in BOOLEAN :
    PinDelivered("D", RamDeliver(ram, "D", i, val))

NextPins == RamControl \/ RamAddress \/ RamData

SpecPins == InitPins /\ [][NextPins]_vars


\* --------------------------------------------- the W24512A, pin by pin
\* W24512A alone (held in ram), its thread loop fed one pin level at a time
InitW24 ==
  /\ ram = W24512A_new(load(<< >>, 0, <<2, 1>>))
  /\ h = H0
  /\ cpu = W65C02_new
  /\ osc = Osc0
  /\ circ = << >>
  /\ chan = NoMsgs
  /\ out = NoMsgs
  /\ mach = Mach0
  /\ thread = Asleep

W24Control ==
  \E g \in {"CS1", "CS2", "WE", "OE"}, val \in BOOLEAN :
    PinDelivered(g, W24512ADeliver(ram, g, 0, val))

W24Address ==
  \E i \in RamAPins, val \in BOOLEAN :
    PinDelivered("A", W24512ADeliver(ram, "A", i, val))

W24Data ==
  \E i \in RamDPins, val \in BOOLEAN :
    PinDelivered("D", W24512ADeliver(ram, "D", i, val))

NextW24 == W24Control \/ W24Address \/ W24Data

SpecW24 == InitW24 /\ [][NextW24]_vars


\* ------------------------------------------------ the pin graph (main-graph.rs)
\* The single-threaded circuit of main-graph.rs, held in circ: the pins by
\* name, and whether init has given the writer pin its handler.  X1.out is
\* linked to U1.phi2.
GraphPins == {"X1.out", "U1.phi2"}
GraphWriter == "X1.out"
GraphReader == "U1.phi2"

\* Pin::new
Pin_new(direction) == [value |-> FALSE, direction |-> direction]

Pin_is_output(p) == p.direction = "Output"

Pin_set_val(p, val) == IF ~Pin_is_output(p) THEN [p EXCEPT !.value = val] ELSE p

\* CircuitPinHandler::on_pin_state_change for the pin named n
CircuitPinHandler(g, n) ==
  [g EXCEPT !.pin[GraphReader] = Pin_set_val(@, g.pin[n].value)]

\* a Pin::write that does not look at the direction
Pin_write_any(g, n, val) ==
  [g |-> [g EXCEPT !.pin[n].value = val], notified |-> FALSE]

\* Pin::write on the pin named n; the handler is the writer pin's, once
\* init has set it
Pin_write(g, n, val) ==
  IF Pin_is_output(g.pin[n])
  THEN IF g.handler /\ n = GraphWriter
       THEN [g |-> CircuitPinHandler([g EXCEPT !.pin[n].value = val], n),
             notified |-> TRUE]
       ELSE [g |-> [g EXCEPT !.pin[n].value = val], notified |-> FALSE]
  ELSE [g |-> g, notified |-> FALSE]

Pin_toggle(g, n) ==
  IF Pin_is_output(g.pin[n]) THEN Pin_write(g, n, ~g.pin[n].value)
  ELSE [g |-> g, notified |-> FALSE]

InitGraph ==
  /\ \E d \in [GraphPins -> {"Input", "Output"}], hd \in BOOLEAN :
       circ = [pin |-> [n \in GraphPins |-> Pin_new(d[n])], handler |-> hd]
  /\ h = H0
  /\ cpu = W65C02_new
  /\ ram = HM62256B_new(<< >>)
  /\ osc = Osc0
  /\ chan = NoMsgs
  /\ out = NoMsgs
  /\ mach = Mach0
  /\ thread = Asleep

GraphDone(op, n, val, r) ==
  /\ circ' = r.g
  /\ h' = [h EXCEPT !.graph = [op |-> op, pin |-> n, val |-> val,
                               before |-> circ.pin, notified |-> r.notified]]
  /\ UNCHANGED <<cpu, ram, osc, chan, out, mach, thread>>

GraphWrite ==
  \E n \in GraphPins, val \in BOOLEAN :
    GraphDone("write", n, val, Pin_write(circ, n, val))

GraphToggle ==
  \E n \in GraphPins : GraphDone("toggle", n, FALSE, Pin_toggle(circ, n))

GraphSetVal ==
  \E n \in GraphPins, val \in BOOLEAN :
    GraphDone("set_val", n, val,
              [g |-> [circ EXCEPT !.pin[n] = Pin_set_val(@, val)],
               notified |-> FALSE])

NextGraph == GraphWrite \/ GraphToggle \/ GraphSetVal

SpecGraph == InitGraph /\ [][NextGraph]_vars

\* ---------------------------------------------------------------- SpecIsa
\* Instructions run as test_with_real_stepper runs one: the registers set,
\* `logic.stepper` preset for the opcode, then PHI2 edges.  The memory is
\* on the bus as section 5 of the specification orders a half-cycle: what
\* the CPU drives is stored, and the addressed cell is on the data pins
\* before the next resume.

\* half-cycles a case is given
IsaTicks == 24

\* the registers a case starts with
Reg(a, x, y, sp, p, pc) ==
  [ir |-> 0, a |-> a, x |-> x, y |-> y, pc |-> pc, sp |-> sp, p |-> p]

\* a case: the steppers to preset in turn (each <<constructor, opcode>>),
\* the registers and the memory
IsaCase(steps, reg, mem) == [steps |-> steps, reg |-> reg, mem |-> mem]

\* the stepper get_stepper builds for opcode o
ViaGet(o) == <<get_stepper(OPERATIONS[o]), o>>

\* memory with the bytes of data from addr on
Image(addr, data) == load(<< >>, addr, data)

\* the address lines the memory chip has
BusAddr(a) == a % 32768

\* the port write w drives the data port
DrivesData(w) == \E i \in DOMAIN w : w[i][1] = "D"

\* the port write w puts an address on the bus
DrivesAddr(w) == \E i \in DOMAIN w : w[i][1] = "A"

\* Addressable::write_byte when the CPU has driven the data port
BusStore(m, c, w) ==
  IF DrivesData(w) THEN MemWrite(m, BusAddr(c.addr), c.d) ELSE m

\* Addressable::read_byte onto the data pins while the CPU reads
BusLoad(m, c) ==
  IF c.ddir = "Input" THEN CpuDeliverD(c, MemRead(m, BusAddr(c.addr)), 0)
  ELSE c

\* status bytes a case starts with (bit 5 set, as set_p keeps it)
PVals == {32, 255, 109, 178}
\* stack pointers a case starts with
SpVals == {250, 0, 255}

\* CLC, SEC, CLI, SEI, CLD, SED, CLV
FlagOps == {24, 56, 88, 120, 216, 248, 184}

FlagCases ==
  {IsaCase(<<ViaGet(o)>>, Reg(a, 1, 2, sp, p, 513), << >>) :
     o \in FlagOps, a \in AVals, sp \in SpVals, p \in PVals}

\* PHA then PLA, PHP then PLP: the steppers get_stepper builds, and
\* push_stepper and pull_stepper built for them directly
PushPullSteps ==
  {<<ViaGet(72), ViaGet(104)>>, <<<<"push", 72>>, <<"pull", 104>>>>,
   <<ViaGet(8), ViaGet(40)>>, <<<<"push", 8>>, <<"pull", 40>>>>}

PushPullCases ==
  {IsaCase(st, Reg(a, 1, 2, sp, p, 513), << >>) :
     st \in PushPullSteps, a \in {0, 5, 128}, sp \in SpVals, p \in PVals}

\* JSR at address p with its target as operand, then RTS; the PC starts
\* behind the opcode, as read_opcode leaves it
JsrAt == {512, 766, 65533}
JsrTargets == {768, 4660}

JsrCases ==
  {IsaCase(<<ViaGet(32), ViaGet(96)>>,
           Reg(0, 1, 2, sp, 32, Add16(p, 1)),
           Image(BusAddr(Add16(p, 1)), <<Lo(t), Hi(t)>>)) :
     p \in JsrAt, t \in JsrTargets, sp \in SpVals}

\* ADC #v and SBC #v, the operand behind the opcode; and
\* SEC; LDA #$50; SBC #$B0
ArithA == {0, 80, 127, 128, 255}
ArithOperands == {0, 1, 127, 128, 176, 255}
ArithP == {32, 33, 226, 227}

ArithCases ==
  {IsaCase(<<ViaGet(o)>>, Reg(a, 1, 2, 250, p, 513), Image(513, <<v>>)) :
     o \in {105, 233}, a \in ArithA, v \in ArithOperands, p \in ArithP}
  \cup {IsaCase(<<ViaGet(56), ViaGet(169), ViaGet(233)>>,
                Reg(0, 1, 2, 250, 32, 513), Image(513, <<80, 176>>))}

\* JMP absolute to a target, and JMP indirect through a pointer whose own
\* cell, wrapped successor and plain successor hold different bytes
JmpPtrs == {4351, 4224, 12543}
PageWrapped(ptr) == Word(Add8(Lo(ptr), 1), Hi(ptr))
Pointed(ptr, t) ==
  load(load(load(Image(513, <<Lo(ptr), Hi(ptr)>>), Add16(ptr, 1), <<86>>),
            PageWrapped(ptr), <<Hi(t)>>), ptr, <<Lo(t)>>)
JmpCases ==
  {IsaCase(<<ViaGet(76)>>, Reg(0, 1, 2, 250, 32, 513),
           Image(513, <<Lo(t), Hi(t)>>)) : t \in JsrTargets}
  \cup {IsaCase(<<ViaGet(108)>>, Reg(0, 1, 2, 250, 32, 513), Pointed(ptr, t)) :
          ptr \in JmpPtrs, t \in JsrTargets}

\* the eight branches, their operand at PC (the CPU holding the branch's
\* opcode in IR), with offsets forwards and backwards, within the page and
\* across it
BranchOps == {16, 48, 80, 112, 144, 176, 208, 240}
BranchAt == {513, 765}
BranchOffsets == {5, 251, 0, 127, 128}
BranchP == {32, 33, 34, 96, 160}
BranchCases ==
  {IsaCase(<<ViaGet(o)>>, [Reg(0, 1, 2, 250, p, pc) EXCEPT !.ir = o],
           Image(pc, <<off>>)) :
     o \in BranchOps, pc \in BranchAt, off \in BranchOffsets, p \in BranchP}

\* INC and DEC on a zero-page cell and on an absolute one
IncDecOps == {230, 198, 238, 206}
IncDecValues == {255, 0, 1, 127, 128}
IncDecCells == {255, 16, 768}
IncDecAt(o) ==
  {e \in IncDecCells : AddressMode(o) = "ZeroPage" <=> e < 256}
IncDecCases ==
  UNION {{IsaCase(<<ViaGet(o)>>, Reg(0, 1, 2, 250, p, 513),
                  load(Image(513, IF AddressMode(o) = "ZeroPage"
                                  THEN <<Lo(ea)>> ELSE <<Lo(ea), Hi(ea)>>),
                       ea, <<v>>)) :
            v \in IncDecValues, p \in {32, 162}, ea \in IncDecAt(o)} :
         o \in IncDecOps}

\* BNE taken across a page by a CPU whose IR holds a byte that is no opcode
UnknownOpcodes == {2, 255}
UnknownCases ==
  {IsaCase(<<ViaGet(208)>>, [Reg(7, 1, 2, 250, 32, pc) EXCEPT !.ir = ir],
           Image(pc, <<off>>)) :
     ir \in UnknownOpcodes, pc \in BranchAt, off \in {5, 251}}

\* ASL, LSR, ROL and ROR on a zero-page cell and on an absolute one
ShiftOps == {6, 14, 70, 78, 38, 46, 102, 110}
ShiftCases ==
  UNION {{IsaCase(<<ViaGet(o)>>, Reg(0, 1, 2, 250, p, 513),
                  load(Image(513, IF AddressMode(o) = "ZeroPage"
                                  THEN <<Lo(ea)>> ELSE <<Lo(ea), Hi(ea)>>),
                       ea, <<v>>)) :
            v \in {129, 64}, p \in {32, 33}, ea \in IncDecAt(o)} :
         o \in ShiftOps}

\* LDA, LDX, STA, STX on a zero-page cell, then the same instruction in
\* ZeroPageX or ZeroPageY mode (its opcode is 16 higher) with the same
\* operand byte
ZpOps == {165, 166, 133, 134}
ZpIndexed(o) == o + 16
ZpOperands == {16, 128, 255}
ZpIndexes == {0, 1, 255}
ZpCases ==
  {IsaCase(<<ViaGet(o), ViaGet(ZpIndexed(o))>>, Reg(7, i, i, 250, 32, 513),
           load(load(Image(513, <<lo, lo>>), lo, <<65>>),
                Add8(lo, i), <<66>>)) :
     o \in ZpOps, lo \in ZpOperands, i \in ZpIndexes}

\* a load in AbsoluteX, AbsoluteY or IndirectY mode run twice, with two base
\* addresses and one index: LDA a,X  LDA a,Y  LDX a,Y  LDY a,X  LDA (zp),Y.
\* Every cell that can be read holds its address's high byte plus one.
IndexedOps == {189, 185, 190, 188, 177}
IndexedBases == {4350, 4351, 4224, 65520}
IndexedBy == {0, 1, 2, 128, 255}
IndexedPtrs == <<32, 48>>
CellByte(a) == (Hi(a) + 1) % 256
Unfixed(base, i) == Word(Add8(Lo(base), i), Hi(base))
IndexedCells(m, base, i) ==
  load(load(m, BusAddr(Unfixed(base, i)), <<CellByte(Unfixed(base, i))>>),
       BusAddr(Add16(base, i)), <<CellByte(Add16(base, i))>>)
IndexedOperands(o, b1, b2) ==
  IF AddressMode(o) = "IndirectY"
  THEN load(load(Image(513, <<IndexedPtrs[1], IndexedPtrs[2]>>),
                 IndexedPtrs[1], <<Lo(b1), Hi(b1)>>),
            IndexedPtrs[2], <<Lo(b2), Hi(b2)>>)
  ELSE Image(513, <<Lo(b1), Hi(b1), Lo(b2), Hi(b2)>>)
IndexedCases ==
  {IsaCase(<<ViaGet(o), ViaGet(o)>>, Reg(7, i, i, 250, 32, 513),
           IndexedCells(IndexedCells(IndexedOperands(o, b1, b2), b1, i),
                        b2, i)) :
     o \in IndexedOps, b1 \in IndexedBases,
     b2 \in IndexedBases, i \in IndexedBy}

\* TAX, TAY, TXA, TYA, TXS, TSX
TransferOps == {170, 168, 138, 152, 154, 186}
TransferCases ==
  {IsaCase(<<ViaGet(o)>>, Reg(a, x, y, sp, p, 513), << >>) :
     o \in TransferOps, a \in {0, 5, 128}, x \in {0, 7, 129},
     y \in {0, 130}, sp \in {0, 17, 250}, p \in {32, 255}}

\* BPL, BCS, BNE, BEQ with code around them: INX behind the branch, LDA #
\* at the branch's target and NOP behind that; the operand at $0201, $02FD
\* or $02FF (the last byte of a page)
BranchOnOps == {16, 176, 208, 240}
BranchOnAt == {513, 765, 767}
BranchTarget(pc, off) == (Add16(pc, 1) + AsI8(off) + 65536) % 65536
BranchOnCases ==
  {IsaCase(<<ViaGet(o)>>, [Reg(0, 1, 2, 250, p, pc) EXCEPT !.ir = o],
           load(load(load(Image(pc, <<off>>), Add16(pc, 1), <<232>>),
                     Add16(BranchTarget(pc, off), 1), <<234>>),
                BranchTarget(pc, off), <<169>>)) :
     o \in BranchOnOps, pc \in BranchOnAt, off \in BranchOffsets,
     p \in {32, 33, 34, 160}}

IsaCases ==
  FlagCases \cup PushPullCases \cup JsrCases \cup ArithCases \cup JmpCases
    \cup BranchCases \cup IncDecCases \cup UnknownCases \cup ShiftCases
    \cup ZpCases \cup IndexedCases \cup TransferCases \cup BranchOnCases

\* cpu.logic.stepper = <constructor>(opdef)
PresetStepper(c, step) == NewStepper(c, step[1], OPERATIONS[step[2]])

IsaStart(k) ==
  /\ cpu = BusLoad(k.mem, PresetStepper([W65C02_new EXCEPT !.reg = k.reg],
                                        k.steps[1]))
  /\ ram = HM62256B_new(k.mem)
  /\ h = [H0 EXCEPT !.op0 = k.steps[1][2],
                    !.isa = [@ EXCEPT !.on = TRUE, !.reg = k.reg,
                                      !.mem = k.mem, !.todo = Tail(k.steps)]]
  /\ osc = Osc0
  /\ circ = << >>
  /\ chan = NoMsgs
  /\ out = NoMsgs
  /\ mach = Mach0
  /\ thread = Asleep

\* the bookkeeping of a tick from CPU c to CPU c2 with port writes w
IsaNoted(i, c, c2, w) ==
  [i EXCEPT
     !.wr = IF DrivesData(w) THEN Append(@, <<c2.addr, c2.d>>) ELSE @,
     !.rd = IF DrivesAddr(w) /\ c2.ddir = "Input" THEN Append(@, c2.addr)
            ELSE @,
     !.sync = IF c2.sync /\ ~c.sync THEN Append(@, c2.cycles) ELSE @,
     !.ends = IF c2.st = "none" /\ c.st # "none" THEN Append(@, c2.cycles)
              ELSE @]

\* the tick's outcome r: store, load, bookkeeping
IsaTicked(r) ==
  /\ ram' = [ram EXCEPT !.mem = BusStore(ram.mem, r.c, r.w)]
  /\ cpu' = BusLoad(BusStore(ram.mem, r.c, r.w), r.c)
  /\ h' = [h EXCEPT !.isa = IsaNoted(@, cpu, r.c, r.w)]

\* a PHI2 edge
IsaTick ==
  /\ cpu.st # "panic"
  /\ cpu.st # "none" \/ h.isa.todo = << >>
  /\ cpu.cycles < IsaTicks
  /\ IsaTicked(CpuDeliver(cpu, "PHI2", 0, ~cpu.phi2))
  /\ UNCHANGED <<osc, circ, chan, out, mach, thread>>

\* the stepper has returned: the next one is preset
IsaNext ==
  /\ cpu.st = "none"
  /\ h.isa.todo # << >>
  /\ cpu' = PresetStepper(cpu, Head(h.isa.todo))
  /\ h' = [h EXCEPT !.isa.todo = Tail(@)]
  /\ UNCHANGED <<ram, osc, circ, chan, out, mach, thread>>

\* power-up: no stepper preset; memory as BenEaterMachine::with_program
\* leaves it, the reset vector at $7FFC/$7FFD being v, LDA #5 at $0200
ResetVectors == {512, 768}
PoweredUp == W65C02_init(W65C02_new)
BootImage(v) == load(load(<< >>, 32764, <<Lo(v), Hi(v)>>), 512, <<169, 5>>)
IsaPowerUp(v) ==
  /\ cpu = BusLoad(BootImage(v), PoweredUp)
  /\ ram = HM62256B_new(BootImage(v))
  /\ h = [H0 EXCEPT !.isa = [@ EXCEPT !.on = TRUE, !.boot = TRUE,
                                      !.reg = PoweredUp.reg,
                                      !.mem = BootImage(v)]]
  /\ osc = Osc0
  /\ circ = << >>
  /\ chan = NoMsgs
  /\ out = NoMsgs
  /\ mach = Mach0
  /\ thread = Asleep

InitIsa ==
  \/ \E k \in IsaCases : IsaStart(k)
  \/ \E v \in ResetVectors : IsaPowerUp(v)

NextIsa == IsaTick \/ IsaNext

SpecIsa == InitIsa /\ [][NextIsa]_vars

\* ---------------------------------------------------------------- SpecA15
\* The machine of BenEaterMachine::with_program with a stepper preset in
\* U1 as in SpecIsa, stepped as in SpecQuiet: what the CPU writes to its
\* pins goes through the circuit channel and the links to the RAM's pins,
\* and what the RAM drives comes back, each wave over before the next step.

\* steps a case is given
A15Steps == 10

\* addresses in the upper 32 KiB: $8010, $C010, $FFFC, $FFFD
UpperAddrs == {32784, 49168, 65532, 65533}
\* the bytes read or stored
A15Values == {5, 128, 255}

\* the cell of address a less $8000 where a is in the upper 32 KiB
Cell(a) == a % 32768

\* the upper addresses and the addresses $8000 below them
A15Addrs == UpperAddrs \cup {Cell(a) : a \in UpperAddrs}

\* with_program(0x200, <<opcode, operand>>)
A15Ram(o, a) == with_program(ProgramStart, <<o, Lo(a), Hi(a)>>)

\* the CPU as init leaves it, the opcode o fetched and its stepper preset
A15Cpu(o, acc) ==
  PresetStepper(set_a(inc_pc(PoweredUp), acc), ViaGet(o))

A15Start(kind, a, v, c, r) ==
  /\ cpu = c
  /\ ram = r
  /\ h = [H0 EXCEPT !.a15 = [kind |-> kind, addr |-> a, v |-> v]]
  /\ osc = Osc0
  /\ circ = << >>
  /\ chan = NoMsgs
  /\ out = NoMsgs
  /\ mach = Mach0
  /\ thread = [k \in Components |-> "loop"]

\* LDA a, the cell holding v (the reset vector where a is its address);
\* STA a with v in A; init_stepper
InitA15 ==
  \/ \E a \in A15Addrs, v \in A15Values :
       \/ /\ Cell(a) < 32764
          /\ A15Start("LDA", a, v, A15Cpu(173, 0),
                      [A15Ram(173, a) EXCEPT !.mem = MemWrite(@, Cell(a), v)])
       \/ A15Start("STA", a, v, A15Cpu(141, v), A15Ram(141, a))
  \/ \E a \in {65532, 65533} :
       A15Start("LDA", a, MemRead(A15Ram(173, a).mem, Cell(a)),
                A15Cpu(173, 0), A15Ram(173, a))
  \/ A15Start("init", 65532, 0, NewStepper(PoweredUp, "init", NoOperation),
              A15Ram(173, 0))

\* Machine::step while the preset stepper has not returned
A15Step == Calm /\ cpu.st \notin {"none", "panic"} /\ MTick(A15Steps)

\* try_recv once the components have taken what they were sent, or with
\* the circuit channel full
A15Take ==
  /\ ~Sending
  /\ Received \/ Len(circ) = CIRCUIT_MESSAGE_CAP
  /\ MPollMsg

NextA15 ==
  \/ A15Step \/ QEmpty \/ A15Take \/ MSend
  \/ Send \/ U1Loop \/ U6Loop

SpecA15 == InitA15 /\ [][NextA15]_vars

\* ---------------------------------------------------------------- SpecBus
\* The machine of SpecA15 with STA a preset in U1, stepped on past the
\* store's end into the opcode fetch that follows it: the bus turns from
\* read (the operand) to write (the store) and back to read (the fetch).

\* steps a case is given
BusSteps == 12

\* the addresses stored to: $0010, $00FF, $1234, $7FFF, $8010
BusAddrs == {16, 255, 4660, 32767, 32784}

InitBus ==
  \E a \in BusAddrs, v \in A15Values :
    A15Start("STA", a, v, A15Cpu(141, v), A15Ram(141, a))

\* Machine::step, the wave of the step before being over
BusStep == Calm /\ cpu.st # "panic" /\ MTick(BusSteps)

NextBus ==
  \/ BusStep \/ QEmpty \/ A15Take \/ MSend
  \/ Send \/ U1Loop \/ U6Loop

SpecBus == InitBus /\ [][NextBus]_vars

\* ------------------------------------------------------------- properties

\* C1: an instruction takes exactly 2 x cycles(o) half-cycles, plus two for
\* each page-cross extra cycle.  The opcode fetch is two of them, so the
\* stepper get_stepper chose, resumed once per PHI2 half-cycle until it
\* returns, must account for the rest.  (Branches, whose count also depends
\* on the branch being taken, are left out of the statement.)
C1_InstructionHalfCycles ==
  (h.done /\ h.viaGet /\ AddressMode(h.op0) # "Relative")
    => h.ticks + 2 = 2 * (Cycles(h.op0) + h.cross)

C2_ReadSeesMemory == h.read.got => h.read.byte = h.read.want

\* C5: at every Circuit::tick made by Machine::step, no message of an
\* earlier half-cycle is still queued in a channel and no component thread
\* is still reacting (the oscillator not having added messages of its own)
C5_TickAfterQuiescence == (osc.n = 0) => ~h.busy

\* C7: the registers after the CPU's n-th half-cycle are the same in every
\* run: those of the run in which each wave completes before the next edge
C7_SameRegisters ==
  (thread["U1"] = "loop" /\ cpu.cycles \in DOMAIN h.ref)
    => cpu.reg = h.ref[cpu.cycles]

\* C9: on_pin_state_change is invoked for a delivery if and only if the
\* level delivered differs from the level the pin held; a delivery of an
\* equal level changes nothing and makes the component write nothing
C9_CalledIffChanged ==
  /\ h.last.called <=> (h.last.prior # h.last.val)
  /\ (h.last.prior = h.last.val) => h.last.quiet

\* C9 witness: the thread of U1 has taken a message whose level its pin held
\* already, and has left on_pin_state_change uncalled
C9_EqualLevelDelivered ==
  h.last.comp = "U1" /\ h.last.prior = h.last.val /\ ~h.last.called

\* C4: when the program LDA #v; STA addr; LDA #0; LDA addr has run to its
\* end, A is v, Z tells whether v is 0, N is bit 7 of v, and memory[addr] is v
C4_ProgramResult ==
  (cpu.reg.pc = ProgramEnd)
    => /\ cpu.reg.a = h.v
       /\ zero_flag(cpu) = (h.v = 0)
       /\ negative(cpu) = BitSet(h.v, 7)
       /\ MemRead(ram.mem, h.addr) = h.v

\* C6: the step loop is never blocked sending into a full component channel
\* while that component's thread is blocked sending into the full circuit
\* channel
C6_NoChannelDeadlock ==
  ~(/\ StepBlocked
    /\ out[Head(mach.fwd).comp] # << >>
    /\ Len(circ) >= CIRCUIT_MESSAGE_CAP)

\* C8: a call of Machine::step that has run to its end has changed the level
\* of the CPU's PHI2 pin exactly once and resumed the stepper exactly once
C8_OneHalfCyclePerStep ==
  (mach.pc = "idle" /\ mach.steps > 0 /\ ~Pending)
    => (h.edges = 1 /\ h.resumes = 1)

\* the bit of P a single-flag instruction is about, and the level it
\* gives that bit
FlagBitOf(o) ==
  CASE o \in {24, 56} -> 0 [] o \in {88, 120} -> 2 [] o \in {216, 248} -> 3
    [] OTHER -> 6
FlagLevelOf(o) == o \in {56, 120, 248}

\* the first stepper of the case has returned
IsaFirstDone == h.isa.on /\ h.isa.ends # << >>

\* the case that runs SEC, LDA #$50, SBC #$B0
SecLdaSbc == h.op0 = 56 /\ h.isa.mem = Image(513, <<80, 176>>)

\* C11: once a single-flag instruction has run, its own bit of P has the
\* instruction's level, every other bit of P is as before, and A, X, Y and
\* SP are as before; the instruction does not panic (cases that run nothing
\* else after it)
C11_FlagOpFrame ==
  (h.isa.on /\ h.op0 \in FlagOps /\ ~SecLdaSbc)
    => /\ cpu.st # "panic"
       /\ IsaFirstDone
            => /\ cpu.reg.p = WithBit(h.isa.reg.p, FlagBitOf(h.op0),
                                      FlagLevelOf(h.op0))
               /\ cpu.reg.a = h.isa.reg.a /\ cpu.reg.x = h.isa.reg.x
               /\ cpu.reg.y = h.isa.reg.y /\ cpu.reg.sp = h.isa.reg.sp

\* C11 witness: CLC has run on a P with every bit set
C11_ClcActed ==
  IsaFirstDone /\ h.op0 = 24 /\ h.isa.reg.p = 255 /\ cpu.reg.p = 254

\* every stepper of the case has returned
IsaAllDone == h.isa.on /\ h.isa.todo = << >> /\ cpu.st = "none"

\* C12: PHA then PLA run to their end, and then A and SP are what they were
\* before PHA, N is bit 7 of A and Z tells whether A is 0
C12_PushPullIdentity ==
  (h.isa.on /\ h.op0 = 72)
    => /\ cpu.st # "panic"
       /\ IsaAllDone
            => /\ cpu.reg.a = h.isa.reg.a
               /\ cpu.reg.sp = h.isa.reg.sp
               /\ negative(cpu) = BitSet(cpu.reg.a, 7)
               /\ zero_flag(cpu) = (cpu.reg.a = 0)

\* C13: PHP then PLP run to their end, and then P is what it was before PHP
\* but for bit 4, with bit 5 set
C13_PushPullStatus ==
  (h.isa.on /\ h.op0 = 8)
    => /\ cpu.st # "panic"
       /\ IsaAllDone
            => /\ WithBit(cpu.reg.p, 4, FALSE) = WithBit(h.isa.reg.p, 4, FALSE)
               /\ BitSet(cpu.reg.p, 5)

\* the address of the last byte of the JSR of the case
JsrLast == Add16(h.isa.reg.pc, 1)

ArithOperand == MemRead(h.isa.mem, BusAddr(h.isa.reg.pc))
ArithAddend == IF h.op0 = 105 THEN ArithOperand ELSE Xor8(ArithOperand, 255)
ArithSum == h.isa.reg.a + ArithAddend + Bit(h.isa.reg.p, 0)

\* C15: after ADC or SBC, A is the low byte of A + addend + C (the addend
\* being the operand, for SBC its complement), C tells whether the sum
\* exceeds $FF, Z whether A is 0, N is bit 7 of A, and V is
\* ((oldA XOR A) AND (addend XOR A) AND $80) # 0; and SEC, LDA #$50,
\* SBC #$B0 gives A = $A0, C = 0, V = 1, N = 1
C15_AdcSbc ==
  /\ (h.isa.on /\ h.op0 \in {105, 233})
       => /\ cpu.st # "panic"
          /\ IsaFirstDone
               => /\ cpu.reg.a = ArithSum % 256
                  /\ carry(cpu) = (ArithSum > 255)
                  /\ zero_flag(cpu) = (cpu.reg.a = 0)
                  /\ negative(cpu) = BitSet(cpu.reg.a, 7)
                  /\ overflow_flag(cpu)
                       = (And8(And8(Xor8(h.isa.reg.a, cpu.reg.a),
                                    Xor8(ArithAddend, cpu.reg.a)), 128) # 0)
  /\ (IsaAllDone /\ SecLdaSbc)
       => /\ cpu.reg.a = 160 /\ ~carry(cpu)
          /\ overflow_flag(cpu) /\ negative(cpu)

\* C15 witness: $7F + $01 with C = 0 has given A = $80, N = 1, V = 1, Z = 0,
\* C = 0
C15_AdcOverflowed ==
  /\ IsaFirstDone /\ h.op0 = 105 /\ h.isa.reg.a = 127 /\ ArithOperand = 1
  /\ h.isa.reg.p = 32
  /\ cpu.reg.a = 128 /\ negative(cpu) /\ overflow_flag(cpu)
  /\ ~zero_flag(cpu) /\ ~carry(cpu)

\* the first instruction of the case has just ended
IsaFirstEnded == h.isa.on /\ Len(h.isa.ends) = 1 /\ cpu.st = "none"

\* the operand word of the case's first instruction
OperandWord ==
  Word(MemRead(h.isa.mem, BusAddr(h.isa.reg.pc)),
       MemRead(h.isa.mem, BusAddr(Add16(h.isa.reg.pc, 1))))

\* C16: JMP (ptr) reads the target's low byte from ptr and its high byte
\* from the address with ptr's high byte and low byte (ptr_lo + 1) mod 256,
\* never from another address, and sets PC to that word; JMP absolute sets
\* PC to its operand; counting the opcode fetch as one cycle, the indirect
\* form ends after 5 cycles and the absolute form after 3, that is 8 and 4
\* half-cycles after the fetch
C16_JmpIndirect ==
  (h.isa.on /\ h.op0 \in {76, 108})
    => /\ cpu.st # "panic"
       /\ (IsaFirstEnded /\ h.op0 = 76)
            => /\ cpu.reg.pc = OperandWord
               /\ h.isa.ends[1] = 2 * (3 - 1)
       /\ (IsaFirstEnded /\ h.op0 = 108)
            => /\ cpu.reg.pc
                    = Word(MemRead(h.isa.mem, OperandWord),
                           MemRead(h.isa.mem, PageWrapped(OperandWord)))
               /\ h.isa.rd = <<h.isa.reg.pc, Add16(h.isa.reg.pc, 1),
                               OperandWord, PageWrapped(OperandWord)>>
               /\ h.isa.ends[1] = 2 * (5 - 1)

\* the address part of C16 alone: the reads and the PC of JMP
C16_JmpAddresses ==
  (IsaFirstEnded /\ h.op0 \in {76, 108})
    => IF h.op0 = 76 THEN cpu.reg.pc = OperandWord
       ELSE /\ cpu.reg.pc
                 = Word(MemRead(h.isa.mem, OperandWord),
                        MemRead(h.isa.mem, PageWrapped(OperandWord)))
            /\ h.isa.rd = <<h.isa.reg.pc, Add16(h.isa.reg.pc, 1),
                            OperandWord, PageWrapped(OperandWord)>>
\* whether the case's branch is taken, the address of the instruction
\* executed after it, and the cycles the branch is to take
BranchTaken ==
  op_branch([W65C02_new EXCEPT !.reg = h.isa.reg], OPERATIONS[h.op0], 0).res > 0
BranchNext ==
  IF BranchTaken
  THEN (Add16(h.isa.reg.pc, 1) + AsI8(ArithOperand) + 65536) % 65536
  ELSE Add16(h.isa.reg.pc, 1)
BranchCycles ==
  IF ~BranchTaken THEN 2
  ELSE IF Hi(BranchNext) = Hi(h.isa.reg.pc) THEN 3 ELSE 4
FetchingNext == cpu.sync /\ cpu.addr = BranchNext

\* C17: counting the branch's opcode fetch as its first cycle, the opcode
\* fetch of the instruction executed next starts when 2 cycles (branch not
\* taken), 3 cycles (taken, same page) or 4 cycles (taken, PCH changed)
\* have passed, that is in the half-cycle 2 * cycles - 1 after the fetch,
\* and not before; so a page cross costs one half-cycle pair more
C17_BranchCycles ==
  (h.isa.on /\ h.op0 \in BranchOps)
    => /\ cpu.st # "panic"
       /\ cpu.cycles = 2 * BranchCycles - 1 => FetchingNext
       /\ cpu.cycles < 2 * BranchCycles - 1 => ~FetchingNext
\* the effective address of the case's INC or DEC, and the value it is to
\* store there
IncDecAddress ==
  IF AddressMode(h.op0) = "ZeroPage" THEN ArithOperand ELSE OperandWord
IncDecStored ==
  (MemRead(h.isa.mem, IncDecAddress)
     + (IF Mnemonic(h.op0) = "INC" THEN 1 ELSE 255)) % 256

\* C18: INC and DEC on memory run to their end, leave the old value plus or
\* minus 1 modulo 256 in the cell at the effective address, and set Z and N
\* from the stored value; so INC on $00FF holding $FF leaves $00 there with
\* Z = 1 and N = 0
C18_IncDecMemory ==
  (h.isa.on /\ h.op0 \in IncDecOps)
    => /\ cpu.st # "panic"
       /\ IsaFirstEnded
            => /\ MemRead(ram.mem, IncDecAddress) = IncDecStored
               /\ zero_flag(cpu) = (IncDecStored = 0)
               /\ negative(cpu) = BitSet(IncDecStored, 7)
\* C19: whatever pin changes the HM62256B has received, it is enabled (and
\* its tri-state pins are) iff CS is low, it can write iff CS and WE are
\* low, it can read iff CS is low, WE high and OE low; memory changes only
\* when it can write and the data port is driven only when it can read, so
\* with CS high it does neither; and a data change while it can write
\* stores the byte, an address change while it can read presents the cell
C19_RamEnableLogic ==
  /\ is_enabled(ram) <=> ~ram.cs
  /\ ram.en <=> ~ram.cs
  /\ can_write(ram) <=> (~ram.cs /\ ~ram.we)
  /\ can_read(ram) <=> (~ram.cs /\ ram.we /\ ~ram.oe)
  /\ h.pins.stored => (~ram.cs /\ ~ram.we)
  /\ h.pins.drove => (~ram.cs /\ ram.we /\ ~ram.oe)
  /\ (h.pins.called /\ h.pins.g = "D" /\ ~ram.cs /\ ~ram.we)
       => MemRead(ram.mem, ram.a) = ram.d
  /\ (h.pins.called /\ h.pins.g = "A" /\ ~ram.cs /\ ram.we /\ ~ram.oe)
       => ram.d = MemRead(ram.mem, ram.a)

\* C19 witness: with CS low, WE high and OE low an address change has made
\* the chip drive the cell's byte
C19_ReadDriven ==
  /\ h.pins.g = "A" /\ h.pins.drove
  /\ ~ram.cs /\ ram.we /\ ~ram.oe /\ ram.d = 1 /\ ram.a = 1
\* C20: the W24512A is enabled iff CS1 is low and CS2 is high; while CS1 is
\* high or CS2 is low no delivery changes its memory or makes it drive its
\* data pins; and after every edge on CS1 or on CS2 the enable of its
\* tri-state pins is (CS1 low and CS2 high)
C20_W24Enable ==
  /\ W24512A_is_enabled(ram) <=> (~ram.cs1 /\ ram.cs2)
  /\ h.pins.stored => (~ram.cs1 /\ ram.cs2)
  /\ h.pins.drove => (~ram.cs1 /\ ram.cs2)
  /\ (h.pins.called /\ h.pins.g \in {"CS1", "CS2"})
       => (ram.en <=> (~ram.cs1 /\ ram.cs2))
\* C21: while CS is high (the tri-state data pins disabled), a change of an
\* address pin, of WE or of OE makes the RAM drive nothing, and the CPU's
\* data pins keep the byte they had
C21_DisabledRamSilent ==
  (ram.cs /\ h.pins.called /\ h.pins.g \in {"A", "WE", "OE"})
    => /\ ~ram.en
       /\ ~h.pins.drove
       /\ cpu.d = h.pins.cpud

\* C21 witness: the RAM has driven a byte to the CPU, was then deselected,
\* and an address change has reached it with WE high and OE low
C21_AddressWhileDisabled ==
  /\ ram.cs /\ h.pins.called /\ h.pins.g = "A" /\ ram.we /\ ~ram.oe
  /\ cpu.d = 2 /\ MemRead(ram.mem, ram.a) = 1
\* C22: write(v) and toggle() on a pin whose direction is Input leave the
\* level of that pin (and of every pin) as it was and call no handler
C22_InputPinInert ==
  (h.graph.op \in {"write", "toggle"}
     /\ circ.pin[h.graph.pin].direction = "Input")
    => /\ circ.pin = h.graph.before
       /\ ~h.graph.notified

\* C22 witness: write(true) has been called on the low Input pin X1.out
\* whose handler is set
C22_WroteToInput ==
  /\ h.graph.op = "write" /\ h.graph.pin = GraphWriter /\ h.graph.val
  /\ circ.handler /\ circ.pin[GraphWriter].direction = "Input"
  /\ ~circ.pin[GraphWriter].value
\* C23: after n calls of W65C02Logic::tick that came back, cycles() is n:
\* each such call adds exactly 1, whether the stepper suspended or returned
\* (a call that panics does not come back and adds nothing)
C23_CyclesCountTicks ==
  cpu.cycles = IF cpu.st = "panic" THEN h.calls - 1 ELSE h.calls

\* C23 witness: three or more ticks have been made and a preset stepper
\* has returned in one of them
C23_TickedThroughReturn ==
  h.done /\ h.calls >= 3 /\ cpu.cycles = h.calls
\* the reset vector memory holds at $FFFC/$FFFD (the cells $7FFC/$7FFD)
ResetVector ==
  Word(MemRead(h.isa.mem, BusAddr(65532)), MemRead(h.isa.mem, BusAddr(65533)))

\* the CPU has read address a
HasRead(a) == \E i \in DOMAIN h.isa.rd : h.isa.rd[i] = a

\* C24: after power-up, whenever an opcode fetch is under way (SYNC high)
\* the init stepper has read $FFFC and $FFFD before, and the first opcode
\* fetch is at the address those two bytes give
C24_ResetVectorFirst ==
  (h.isa.boot /\ cpu.sync)
    => /\ HasRead(65532) /\ HasRead(65533)
       /\ Len(h.isa.sync) = 1 => cpu.addr = ResetVector
\* tick is about to decode an IR that has no entry in the opcode table
DecodesUnknown ==
  cpu.st = "none" /\ cpu.sync /\ cpu.reg.ir \notin OpCodes /\ cpu' # cpu

\* C25: decoding a byte with no entry in the opcode table is fatal: the
\* tick panics, with PC and every other register as they were, the stepper
\* slot is left empty and memory untouched; and once the CPU has panicked
\* neither it nor memory changes any more
C25_UnknownOpcodeFatal ==
  [][/\ DecodesUnknown
          => /\ cpu'.st = "panic"
             /\ cpu'.reg = cpu.reg
             /\ cpu'.op = cpu.op /\ cpu'.pos = cpu.pos
             /\ ram' = ram
     /\ cpu.st = "panic" => (cpu' = cpu /\ ram' = ram)]_vars

\* C25 witness: BNE has crossed a page with $02 in IR, and the next tick
\* has panicked at the branch's target
C25_PanickedOnUnknown ==
  /\ h.isa.on /\ h.op0 = 208 /\ h.isa.reg.ir = 2
  /\ cpu.st = "panic" /\ cpu.reg.ir = 2 /\ cpu.reg.pc = BranchNext
  /\ cpu.reg.a = 7
\* start has come back to its caller (it has no statement after its loop)
StartReturned == mach.pc = "returned"

\* C26: once stop has been called, or once the steps a run is given are
\* used up, start eventually returns
C26_StartReturns ==
  (h.stopped \/ mach.steps = QuietSteps) ~> StartReturned
\* the access of the case is to the upper 32 KiB and its stepper has returned
UpperDone(kind) ==
  cpu.st = "none" /\ h.a15.kind = kind /\ h.a15.addr >= 32768

\* C27: with A15 not linked, an access to an address a of the upper 32 KiB
\* reads or writes the RAM cell a - $8000: LDA a ends with that cell's
\* byte in A, STA a ends with A's byte in that cell, the RAM's address
\* pins hold a - $8000 once the CPU has driven a, and init_stepper,
\* reading at $FFFC/$FFFD, ends with PC = $0200
C27_UpperHalfAliases ==
  /\ (Calm /\ mach.pc = "idle" /\ h.a15.kind # "" /\ cpu.addr >= 32768)
       => ram.a = Cell(cpu.addr)
  /\ UpperDone("LDA") => cpu.reg.a = h.a15.v
  /\ UpperDone("STA") => MemRead(ram.mem, Cell(h.a15.addr)) = h.a15.v
  /\ UpperDone("init") => cpu.reg.pc = 512
\* every channel is empty and no component has a message left to send
Quiescent ==
  /\ circ = << >>
  /\ \A k \in Components : chan[k] = << >> /\ out[k] = << >>

\* C28: propagation quiesces: with the clock toggled by the machine's
\* steps only (the oscillator thread silent), if from some toggle on no
\* further one is issued, every channel is eventually empty and stays so,
\* no component reacting any more
C28_PropagationQuiesces ==
  ([](osc.n = 0) /\ <>[][~IssuesToggle]_vars) => <>[]Quiescent
\* a tick that finds the stepper slot empty after a stepper has returned
PicksStepper ==
  cpu.st = "none" /\ cpu.cycles > 0 /\ cpu'.cycles = cpu.cycles + 1

\* C29: when the current stepper has returned, the next one follows from
\* the result and IR only: with has_opcode the stepper of the opcode in IR
\* is started, otherwise the opcode fetch
C29_NextStepperFromResult ==
  [][PicksStepper
       => IF cpu.has
          THEN /\ cpu.reg.ir \in OpCodes
               /\ cpu'.op = decode_op(cpu.reg.ir)
               /\ cpu'.st = get_stepper(decode_op(cpu.reg.ir))
          ELSE cpu'.st = "read_opcode"]_vars
\* the running stepper returns in this step
StepperReturns == cpu.st \notin {"none", "panic"} /\ cpu'.st = "none"

\* half-cycles from the tick that raised SYNC last to this step's tick
SinceSync ==
  IF h.isa.sync = << >> THEN 0
  ELSE cpu'.cycles - h.isa.sync[Len(h.isa.sync)] + 1

\* the first half-cycle of a fetch: SYNC raised, PC on the address pins,
\* the data pins reading
FetchRequested ==
  (~cpu.sync /\ cpu'.sync)
    => /\ cpu'.addr = cpu.reg.pc
       /\ cpu'.ddir = "Input"
       /\ cpu'.reg = cpu.reg

\* the second: the byte on D into IR, PC + 1, SYNC cleared
FetchLatched ==
  (cpu.sync /\ ~cpu'.sync /\ cpu.st = "read_opcode")
    => /\ cpu'.reg.ir = cpu.d
       /\ cpu'.reg.pc = Add16(cpu.reg.pc, 1)

\* the fetch is over with its second half-cycle
FetchTakesTwo ==
  (StepperReturns /\ cpu.st = "read_opcode") => SinceSync = 2

\* SYNC is low whenever a stepper returns
SyncLowAtReturn == StepperReturns => ~cpu'.sync

\* IR changes only as SYNC is cleared
IrOnlyWithSync == cpu'.reg.ir # cpu.reg.ir => (cpu.sync /\ ~cpu'.sync)

\* C30: SYNC brackets the opcode fetch: the fetch takes exactly two
\* half-cycles (SYNC up with PC on the address pins and D reading; then D
\* into IR, PC + 1, SYNC down), SYNC is low whenever a stepper returns,
\* and IR changes only as SYNC is cleared
C30_SyncBracketsFetch ==
  [][/\ FetchRequested
     /\ FetchLatched
     /\ FetchTakesTwo
     /\ SyncLowAtReturn
     /\ IrOnlyWithSync]_vars

\* a PHI2 edge reaches the CPU in this step, rising or falling
RisingEdge == ~cpu.phi2 /\ cpu'.phi2
FallingEdge == cpu.phi2 /\ ~cpu'.phi2

\* C31: cycles() grows by exactly one on a rising edge of PHI2 and stays
\* as it is on a falling edge, so that after k full clock periods (2k
\* edges, none of them ending in a panic) it is k
C31_CyclesCountRisingEdges ==
  [][/\ (RisingEdge /\ cpu'.st # "panic") => cpu'.cycles = cpu.cycles + 1
     /\ FallingEdge => cpu'.cycles = cpu.cycles
     /\ (cpu'.st # "panic" /\ h'.calls % 2 = 0)
          => 2 * cpu'.cycles = h'.calls]_vars

\* the read-modify-write opcodes of the cases
RmwOps == IncDecOps \cup ShiftOps

\* what the case's read-modify-write instruction is to store: the old
\* value plus or minus one, or shifted or rotated through the carry
RmwOld == MemRead(h.isa.mem, IncDecAddress)
RmwNew ==
  LET m == Mnemonic(h.op0)
      cin == Bit(h.isa.reg.p, 0)
  IN CASE m \in {"INC", "DEC"} -> IncDecStored
       [] m = "ASL" -> (2 * RmwOld) % 256
       [] m = "LSR" -> RmwOld \div 2
       [] m = "ROL" -> (2 * RmwOld + cin) % 256
       [] OTHER     -> RmwOld \div 2 + 128 * cin

\* C32: a read-modify-write instruction on memory runs to its end; the
\* last address it reads is the effective address, it writes there first
\* the value it read and then the new value and nothing else, the cell
\* holding the old value after the first write and the new one after the
\* second; counting the opcode fetch as one cycle the Absolute form ends
\* after 6 cycles, 10 half-cycles after the fetch
C32_RmwBusSequence ==
  (h.isa.on /\ h.op0 \in RmwOps)
    => /\ cpu.st # "panic"
       /\ Len(h.isa.wr) = 1
            => /\ h.isa.wr[1] = <<IncDecAddress, RmwOld>>
               /\ h.isa.rd[Len(h.isa.rd)] = IncDecAddress
               /\ MemRead(ram.mem, IncDecAddress) = RmwOld
       /\ IsaFirstEnded
            => /\ h.isa.wr = <<<<IncDecAddress, RmwOld>>,
                               <<IncDecAddress, RmwNew>>>>
               /\ MemRead(ram.mem, IncDecAddress) = RmwNew
               /\ AddressMode(h.op0) = "Absolute" => h.isa.ends[1] = 2 * (6 - 1)

\* PHI2O has the level of PHI2 and PHI1O the opposite one
ClockOutputsFollow == cpu.phi2o = cpu.phi2 /\ cpu.phi1o = ~cpu.phi2

\* an edge of PHI2 leaves PHI1O and PHI2O echoing the new level, also when
\* the resume that follows panics
EchoesEdge == (RisingEdge \/ FallingEdge) => ClockOutputsFollow'

\* C33: every PHI2 edge delivered to the CPU leaves PHI1O at the negation
\* of PHI2 and PHI2O at PHI2, and in every state between two deliveries
\* (the model's states: a delivery is one step) PHI2O = PHI2 and
\* PHI1O = ~PHI2
C33_ClockOutputsEcho == []ClockOutputsFollow /\ [][EchoesEdge]_vars

\* the chip's thread loop has run on_pin_state_change for a WE or OE edge
WeEdge == ram'.we # ram.we
OeEdge == ram'.oe # ram.oe

\* C34: a WE edge leaves the data pins Input if WE is now low and Output
\* otherwise; an OE edge leaves them Output if WE is high and OE is now
\* low and Input otherwise; so no OE edge while WE is low leaves them
\* Output
C34_DataDirectionOnEdges ==
  [][/\ WeEdge => ram'.ddir = (IF ram'.we THEN "Output" ELSE "Input")
     /\ OeEdge => ram'.ddir = (IF ram'.we /\ ~ram'.oe THEN "Output"
                               ELSE "Input")
     /\ (OeEdge /\ ~ram.we) => ram'.ddir # "Output"]_vars

\* both instructions of the case have ended
IsaBothEnded == h.isa.on /\ Len(h.isa.ends) >= 2

\* the effective address of the case's indexed zero-page instruction
ZpEffective ==
  Add8(MemRead(h.isa.mem, 514),
       IF AddressMode(ZpIndexed(h.op0)) = "ZeroPageX" THEN h.isa.reg.x
       ELSE h.isa.reg.y)

\* C35: a load or store in ZeroPageX or ZeroPageY mode accesses the cell
\* $00:((lo + index) mod 256), and takes one cycle (two half-cycles) more
\* than the same instruction in ZeroPage mode, whatever the index
C35_ZeroPageIndexed ==
  (h.isa.on /\ h.op0 \in ZpOps)
    => /\ cpu.st # "panic"
       /\ IsaBothEnded
            => /\ IF Mnemonic(h.op0) \in {"LDA", "LDX"}
                  THEN h.isa.rd[4] = ZpEffective
                  ELSE h.isa.wr[2][1] = ZpEffective
               /\ h.isa.ends[2] - h.isa.ends[1] = h.isa.ends[1] + 2

\* the base address of the case's n-th indexed load, its index, whether
\* adding the index to the base's low byte carries, and the bus reads the
\* load is to make
IndexedIndirect == AddressMode(h.op0) = "IndirectY"
IndexedAt(n) == IF IndexedIndirect THEN 512 + n ELSE 511 + 2 * n
IndexedBase(n) ==
  IF IndexedIndirect
  THEN Word(MemRead(h.isa.mem, IndexedPtrs[n]),
            MemRead(h.isa.mem, IndexedPtrs[n] + 1))
  ELSE Word(MemRead(h.isa.mem, IndexedAt(n)),
            MemRead(h.isa.mem, IndexedAt(n) + 1))
IndexOf == IF AddressMode(h.op0) = "AbsoluteX" THEN h.isa.reg.x ELSE h.isa.reg.y
IndexCarries(n) == Lo(IndexedBase(n)) + IndexOf > 255
IndexedReads(n) ==
  (IF IndexedIndirect
   THEN <<IndexedAt(n), IndexedPtrs[n], IndexedPtrs[n] + 1>>
   ELSE <<IndexedAt(n), IndexedAt(n) + 1>>)
    \o (IF IndexCarries(n) THEN <<Unfixed(IndexedBase(n), IndexOf)>>
        ELSE << >>)
    \o <<Add16(IndexedBase(n), IndexOf)>>
IndexedLoaded ==
  CASE Mnemonic(h.op0) = "LDA" -> cpu.reg.a
    [] Mnemonic(h.op0) = "LDX" -> cpu.reg.x
    [] OTHER                   -> cpu.reg.y

\* C36: a read in AbsoluteX, AbsoluteY or IndirectY mode makes exactly the
\* bus reads of its operand (and pointer), then, if and only if adding the
\* index to the base's low byte carries, one read of the unfixed address
\* (base high byte, wrapped low byte), then the read of base + index
\* (16-bit), whose byte it loads; and of two such reads the one that
\* carries takes exactly one cycle (two half-cycles) more
C36_PageCrossRead ==
  (h.isa.on /\ h.op0 \in IndexedOps)
    => /\ cpu.st # "panic"
       /\ (Len(h.isa.ends) = 2 /\ cpu.st = "none")
            => /\ h.isa.rd = IndexedReads(1) \o IndexedReads(2)
               /\ (h.isa.ends[2] - h.isa.ends[1]) - h.isa.ends[1]
                    = 2 * (B2N(IndexCarries(2)) - B2N(IndexCarries(1)))
               /\ IndexedLoaded = CellByte(Add16(IndexedBase(2), IndexOf))

\* C36 witness: the first load has read without a carry, the second with
\* one, its unfixed address being read just before the right one
C36_CrossedOnce ==
  /\ h.isa.on /\ h.op0 \in IndexedOps
  /\ Len(h.isa.ends) = 2 /\ cpu.st = "none"
  /\ ~IndexCarries(1) /\ IndexCarries(2)
  /\ h.isa.ends[2] - h.isa.ends[1] = h.isa.ends[1] + 2
  /\ h.isa.rd[Len(h.isa.rd) - 1] = Unfixed(IndexedBase(2), IndexOf)
  /\ h.isa.rd[Len(h.isa.rd)] = Add16(IndexedBase(2), IndexOf)
  /\ Hi(h.isa.rd[Len(h.isa.rd)]) # Hi(h.isa.rd[Len(h.isa.rd) - 1])

\* the register the case's transfer reads and the one it writes, and the
\* value transferred
TransferSource ==
  CASE Mnemonic(h.op0) \in {"TAX", "TAY"} -> "a"
    [] Mnemonic(h.op0) \in {"TXA", "TXS"} -> "x"
    [] Mnemonic(h.op0) = "TYA"            -> "y"
    [] OTHER                              -> "sp"
TransferDest ==
  CASE Mnemonic(h.op0) \in {"TAX", "TSX"} -> "x"
    [] Mnemonic(h.op0) = "TAY"            -> "y"
    [] Mnemonic(h.op0) = "TXS"            -> "sp"
    [] OTHER                              -> "a"
Transferred == h.isa.reg[TransferSource]

\* C37: a transfer instruction leaves the source register's value in the
\* destination register; TXS leaves P as it was; TAX, TAY, TXA, TYA and
\* TSX leave N = bit 7 of the value transferred and Z = (value = 0)
C37_TransferFlags ==
  (h.isa.on /\ h.op0 \in TransferOps)
    => /\ cpu.st # "panic"
       /\ IsaFirstEnded
            => /\ cpu.reg[TransferDest] = Transferred
               /\ IF Mnemonic(h.op0) = "TXS" THEN cpu.reg.p = h.isa.reg.p
                  ELSE /\ negative(cpu) = BitSet(Transferred, 7)
                       /\ zero_flag(cpu) = (Transferred = 0)

\* tick finds no stepper and starts one in this step
StartsStepper == cpu.st = "none" /\ cpu'.cycles = cpu.cycles + 1

\* an opcode fetch begins in this step: SYNC goes up
FetchBegins == ~cpu.sync /\ cpu'.sync

\* C38: an opcode fetch begins only on the low phase of PHI2 (the edge
\* that starts it is a falling one), and when tick has to start a stepper
\* it starts compensate if the edge is a rising one, so that the fetch
\* would begin on the high phase, and does not start compensate otherwise
C38_FetchOnLowPhase ==
  [][/\ FetchBegins => ~cpu'.phi2
     /\ StartsStepper => (cpu'.st = "compensate" <=> cpu'.phi2)]_vars

\* the tick after the end of the case's first instruction has been made
IsaNextStarted == Len(h.isa.ends) = 1 /\ cpu.cycles = h.isa.ends[1] + 1

\* the instruction at address n is the one being executed: its opcode is
\* being fetched from n, or the opcode latched from n has been decoded
\* and its stepper started with PC behind it
ExecutesAt(n) ==
  \/ cpu.st = "read_opcode" /\ cpu.sync /\ cpu.addr = n
  \/ /\ cpu.reg.ir = MemRead(h.isa.mem, BusAddr(n))
     /\ cpu.reg.ir \in OpCodes
     /\ cpu.op = decode_op(cpu.reg.ir)
     /\ cpu.st = get_stepper(cpu.op)
     /\ cpu.reg.pc = Add16(n, 1)

\* C39: after a branch at p (its operand at p + 1) the instruction
\* executed next is the one at p + 2 if the branch is not taken and the
\* one at (p + 2 + offset) mod 2^16 if it is, in the page of p + 2 or in
\* another; and a branch to the page of p + 2 ends with the byte at the
\* target in IR
C39_BranchNextInstruction ==
  (h.isa.on /\ h.op0 \in BranchOps /\ h.isa.reg.ir = h.op0)
    => /\ cpu.st # "panic"
       /\ IsaNextStarted => ExecutesAt(BranchNext)
       /\ ( /\ IsaFirstEnded /\ BranchTaken
            /\ Hi(BranchNext) = Hi(Add16(h.isa.reg.pc, 1)) )
            => cpu.reg.ir = MemRead(h.isa.mem, BusAddr(BranchNext))

\* the cells that hold a byte before or after this step
CellsHeld == DOMAIN ram.mem \cup DOMAIN ram'.mem

\* C40: while the CPU stores a byte to address a, its address and data
\* bits reaching the RAM pin by pin, and while the bus turns from read to
\* write and back to read for the next fetch, no step changes a cell of
\* the RAM other than the one address a selects
C40_WriteTouchesOneCell ==
  [][\A x \in CellsHeld :
       x # Cell(h.a15.addr) => MemRead(ram'.mem, x) = MemRead(ram.mem, x)]_vars

\* C40 witness: the store has been made pin by pin, the stepper has
\* returned and the next opcode fetch has the bus reading again at the
\* address behind the instruction
C40_StoredAndReadingOn ==
  /\ h.a15.kind = "STA" /\ h.a15.v = 5
  /\ MemRead(ram.mem, Cell(h.a15.addr)) = 5
  /\ cpu.st = "read_opcode" /\ cpu.rw /\ ram.we
  /\ ram.a = 515 /\ Calm /\ mach.pc = "idle"
====
